---- MODULE Spec2Model ----
(***************************************************************************)
(* Model of the catalog organizer (src/src/org, src/src/prim, src/src/io). *)
(*                                                                         *)
(* The state is the Organizer (three FileMaps, the Live Photo linker map,  *)
(* the validation configuration and the valid set), the three directory    *)
(* trees it works on (source, trash, destination) and the sequence of      *)
(* tool calls it has issued.  One action models one Organizer method.      *)
(*                                                                         *)
(* Conventions.  Rust handles are 0-based indices into FileMap::data; here *)
(* a handle h is the 1-based index into the sequence `data`, so that 0 can *)
(* stand for Option::None of a handle.  File names are sequences of        *)
(* one-character strings.  Option<String>::None is the string None.        *)
(***************************************************************************)
EXTENDS Integers, Sequences, FiniteSets, TLC

\* ------------------------------------------------------------------------
\* Bounds of the model
\* ------------------------------------------------------------------------

\* Largest number of files in the scanned source tree.
MaxFiles == 4

\* Largest number of FileMap operations in a sequence of inserts and takes.
MaxOps == 5

\* Largest number of members pushed onto one side of a LivePhotoLinker.
MaxHeap == 3

\* Largest number of files in a tree processed under any validation
\* configuration.
MaxSmallTree == 2

\* ------------------------------------------------------------------------
\* Generic helpers
\* ------------------------------------------------------------------------

None == "None"

Range(s) == {s[i] : i \in DOMAIN s}

\* All orders in which the elements of a finite set can be visited (the
\* iteration order of a HashMap or of BinaryHeap::drain is unspecified).
Perms(S) ==
  {p \in [1..Cardinality(S) -> S] : \A i, j \in 1..Cardinality(S) : i # j => p[i] # p[j]}

Digits == <<"0", "1", "2", "3", "4", "5", "6", "7", "8", "9">>

IsDigit(c) == c \in Range(Digits)

\* Zero-padded decimal rendering of n in exactly w characters.
RECURSIVE Pad(_, _)
Pad(n, w) == IF w = 0 THEN <<>> ELSE Pad(n \div 10, w - 1) \o <<Digits[(n % 10) + 1]>>

ToLower(c) ==
  CASE c = "X" -> "x"
    [] c = "M" -> "m"
    [] c = "P" -> "p"
    [] OTHER -> c

\* Position of the first "." of s at or after position i, 0 if there is none.
RECURSIVE FirstDot(_, _)
FirstDot(s, i) ==
  IF i > Len(s) THEN 0
  ELSE IF s[i] = "." THEN i
  ELSE FirstDot(s, i + 1)

\* ------------------------------------------------------------------------
\* prim/metadata.rs
\* ------------------------------------------------------------------------

NoMatch == [matched |-> FALSE, parent_and_stem |-> <<>>, dupe_number |-> <<>>, base_ext |-> <<>>]

\* (?:_(\d{2}))? at the end of the text before the first dot: whether its
\* last three characters are "_" and two digits.
HasDupeNumber(full) ==
  /\ Len(full) >= 3
  /\ full[Len(full) - 2] = "_"
  /\ IsDigit(full[Len(full) - 1])
  /\ IsDigit(full[Len(full)])

\* (?:\.[Xx][Mm][Pp])?$ on what follows the base extension.
IsXmpOrEnd(rest) ==
  \/ rest = <<>>
  \/ /\ Len(rest) = 4
     /\ <<ToLower(rest[2]), ToLower(rest[3]), ToLower(rest[4])>> = <<"x", "m", "p">>

\* The captures, given the text before the first dot (full), the text
\* after it (tail) and the position j of the next dot in tail (0: none).
Captures(full, tail, j) ==
  IF ~IsXmpOrEnd(IF j = 0 THEN <<>> ELSE SubSeq(tail, j, Len(tail))) THEN NoMatch
  ELSE [matched |-> TRUE,
        parent_and_stem |-> IF HasDupeNumber(full) THEN SubSeq(full, 1, Len(full) - 3) ELSE full,
        dupe_number |-> IF HasDupeNumber(full) THEN SubSeq(full, Len(full) - 1, Len(full))
                        ELSE <<>>,
        base_ext |-> IF j = 0 THEN tail ELSE SubSeq(tail, 1, j - 1)]

\* The regex from its first capture on, applied to r with its first dot at
\* position i (0: none).
SplitAt(r, i) ==
  IF i = 0 THEN NoMatch
  ELSE Captures(SubSeq(r, 1, i - 1), SubSeq(r, i + 1, Len(r)),
                FirstDot(SubSeq(r, i + 1, Len(r)), 1))

\* The regex of parse_file_name applied to s with the first `skip` characters
\* consumed by the optional group (?:./):
\*   ([^.]*?)(?:_(\d{2}))?\.([^.]*)(?:\.[Xx][Mm][Pp])?$
\* The stem and the duplicate number hold no ".", so the "\." is the first
\* dot; the lazy stem gives the duplicate number the last three characters
\* before it whenever they are "_" and two digits.
ParseFrom(s, skip) ==
  SplitAt(SubSeq(s, skip + 1, Len(s)), FirstDot(SubSeq(s, skip + 1, Len(s)), 1))

\* Metadata::parse_file_name.  The optional group (?:./) is tried first
\* (any character followed by "/"), and given up if the rest fails.
RECURSIVE FirstMatch(_, _)
Prefer(p, s, skips) == IF p.matched \/ skips = <<>> THEN p ELSE FirstMatch(s, skips)

FirstMatch(s, skips) == Prefer(ParseFrom(s, Head(skips)), s, Tail(skips))

parse_file_name(s) ==
  FirstMatch(s, IF Len(s) >= 2 /\ s[2] = "/" THEN <<2, 0>> ELSE <<0>>)

\* Metadata::get_file_category.
HasDupeCapture(p) == p.matched /\ p.dupe_number # <<>>

get_file_category(m) ==
  IF m.file_type = "XMP"
  THEN IF HasDupeCapture(parse_file_name(m.source_file))
       THEN "SidecarDupe"
       ELSE "SidecarInitial"
  ELSE "Media"

\* Sidecar::get_media_path: PathBuf::from(parent_and_stem).with_extension(base_ext).
with_extension(p) ==
  IF p.parent_and_stem = <<>> \/ p.base_ext = <<>>
  THEN p.parent_and_stem
  ELSE p.parent_and_stem \o <<".">> \o p.base_ext

\* get_media_path as it would be if the duplicate number stayed in the
\* name.  C36_LinkedExactlyWhenMediaExists does not hold of it.
get_media_path_with_number(m) ==
  IF parse_file_name(m.source_file).dupe_number = <<>>
  THEN with_extension(parse_file_name(m.source_file))
  ELSE parse_file_name(m.source_file).parent_and_stem \o <<"_">>
         \o parse_file_name(m.source_file).dupe_number \o <<".">>
         \o parse_file_name(m.source_file).base_ext

get_media_path(m) == with_extension(parse_file_name(m.source_file))

\* ------------------------------------------------------------------------
\* The scanned tree: the files the tool can find under the source directory
\* ------------------------------------------------------------------------

\* The date-time values that occur in the tags of the scanned files, as the
\* tool reports them (already normalised to UTC); tz says whether the tag
\* carries a time zone.
DateTab ==
  <<[y |-> 2000, mo |-> 1, d |-> 1, h |-> 0, mi |-> 0, s |-> 0, ms |-> 0, tz |-> TRUE],
    [y |-> 2000, mo |-> 1, d |-> 1, h |-> 0, mi |-> 0, s |-> 0, ms |-> 0, tz |-> FALSE],
    [y |-> 2025, mo |-> 1, d |-> 1, h |-> 8, mi |-> 0, s |-> 0, ms |-> 999, tz |-> TRUE]>>

\* The descriptive tags of a file (0 stands for an absent date tag).
TagsNone ==
  [creator |-> None, copyright |-> None, make |-> None, model |-> None,
   create_date |-> 0, date_time_original |-> 0,
   gps_position |-> None, city |-> None, state |-> None, country |-> None]

TagsFull ==
  [creator |-> "C", copyright |-> "Copyright C", make |-> "Mk", model |-> "Md",
   create_date |-> 1, date_time_original |-> 1,
   gps_position |-> "G", city |-> "Ci", state |-> "St", country |-> "Co"]

TagsDated ==
  [creator |-> "C", copyright |-> None, make |-> None, model |-> None,
   create_date |-> 0, date_time_original |-> 1,
   gps_position |-> None, city |-> None, state |-> None, country |-> None]

TagsLater ==
  [creator |-> None, copyright |-> None, make |-> None, model |-> None,
   create_date |-> 3, date_time_original |-> 3,
   gps_position |-> None, city |-> None, state |-> None, country |-> None]

TagNames ==
  {"creator", "copyright", "make", "model", "create_date", "date_time_original",
   "gps_position", "city", "state", "country"}

DateTags == {"create_date", "date_time_original"}

\* Whether the tag t has a value in the metadata record m.
IsSet(m, t) == IF t \in DateTags THEN m[t] # 0 ELSE m[t] # None

\* One Metadata record (prim/metadata.rs, struct Metadata).  modify_date
\* stands for SubSecModifyDate/ModifyDate (0 when absent), larger is newer.
Meta(path, ftype, ext, comp, cid, md, tags) ==
  [source_file |-> path, file_type |-> ftype, file_type_extension |-> ext,
   compressor_id |-> comp, content_identifier |-> cid,
   modify_date |-> md, file_modify_date |-> 1] @@ tags

TagsOf(m) == [t \in TagNames |-> m[t]]

HEICX == <<"h", "e", "i", "c">>
JPGX == <<"j", "p", "g">>
MOVX == <<"m", "o", "v">>
XMPX == <<"x", "m", "p">>

\* <stem>.<ext>, <stem>.<ext>.xmp and <stem>_<nn>.<ext>.xmp
MediaName(stem, ext) == stem \o <<".">> \o ext
SidecarName(stem, ext) == stem \o <<".">> \o ext \o <<".">> \o XMPX
DupeName(stem, nn, ext) == stem \o <<"_">> \o nn \o <<".">> \o ext \o <<".">> \o XMPX

\* The candidate files, in the order in which the recursive scan reports
\* them.  Every candidate may be absent; when present its free tags are
\* drawn from cids, mds and tags.
\* The media b_01.jpg has the name of a duplicate sidecar before its
\* extension: b_01.jpg.xmp is where its sidecar goes, and parses as
\* duplicate 01 of b.jpg.
Slots ==
  <<[path |-> MediaName(<<"a">>, HEICX), ftype |-> "HEIC", ext |-> HEICX, comp |-> None,
     cids |-> {None, "X"}, mds |-> {0}, tags |-> {TagsFull}],
    [path |-> MediaName(<<"a">>, JPGX), ftype |-> "JPEG", ext |-> JPGX, comp |-> None,
     cids |-> {None, "X"}, mds |-> {2}, tags |-> {TagsFull}],
    [path |-> MediaName(<<"b">>, JPGX), ftype |-> "JPEG", ext |-> JPGX, comp |-> None,
     cids |-> {None, "Y"}, mds |-> {0}, tags |-> {TagsFull}],
    [path |-> MediaName(<<"b", "_", "0", "1">>, JPGX), ftype |-> "JPEG", ext |-> JPGX,
     comp |-> None, cids |-> {None}, mds |-> {0}, tags |-> {TagsFull}],
    [path |-> MediaName(<<"a">>, MOVX), ftype |-> "MOV", ext |-> MOVX, comp |-> "hvc1",
     cids |-> {None, "X"}, mds |-> {0}, tags |-> {TagsDated}],
    [path |-> MediaName(<<"b">>, MOVX), ftype |-> "MOV", ext |-> MOVX, comp |-> "hvc1",
     cids |-> {"X", "Y"}, mds |-> {2}, tags |-> {TagsFull}],
    [path |-> SidecarName(<<"a">>, HEICX), ftype |-> "XMP", ext |-> XMPX, comp |-> None,
     cids |-> {None}, mds |-> {0}, tags |-> {TagsLater}],
    [path |-> SidecarName(<<"a">>, JPGX), ftype |-> "XMP", ext |-> XMPX, comp |-> None,
     cids |-> {None}, mds |-> {0}, tags |-> {TagsFull}],
    [path |-> SidecarName(<<"b">>, JPGX), ftype |-> "XMP", ext |-> XMPX, comp |-> None,
     cids |-> {None}, mds |-> {0}, tags |-> {TagsDated, TagsNone}],
    [path |-> SidecarName(<<"a">>, MOVX), ftype |-> "XMP", ext |-> XMPX, comp |-> None,
     cids |-> {None}, mds |-> {0}, tags |-> {TagsNone}],
    [path |-> DupeName(<<"a">>, <<"0", "1">>, JPGX), ftype |-> "XMP", ext |-> XMPX, comp |-> None,
     cids |-> {None}, mds |-> {0}, tags |-> {TagsNone}],
    [path |-> DupeName(<<"b">>, <<"0", "1">>, JPGX), ftype |-> "XMP", ext |-> XMPX, comp |-> None,
     cids |-> {None}, mds |-> {0}, tags |-> {TagsNone}]>>

\* The Metadata records a present candidate can have.
SlotFiles(sl) ==
  {Meta(sl.path, sl.ftype, sl.ext, sl.comp, c, md, t) : c \in sl.cids, md \in sl.mds, t \in sl.tags}

\* The trees made of candidates i.. with at most k files: functions from
\* the path of each file present to its Metadata.
RECURSIVE Trees(_, _)
Trees(i, k) ==
  IF i > Len(Slots) THEN {<<>>}
  ELSE Trees(i + 1, k) \cup
       (IF k = 0 THEN {}
        ELSE {(Slots[i].path :> f) @@ t : f \in SlotFiles(Slots[i]), t \in Trees(i + 1, k - 1)})

\* A duplicate sidecar of the video a.mov, for the trees that hold a Live
\* Photo video with its sidecars.
VideoDupe ==
  [path |-> DupeName(<<"a">>, <<"0", "1">>, MOVX), ftype |-> "XMP", ext |-> XMPX, comp |-> None,
   cids |-> {None}, mds |-> {0}, tags |-> {TagsNone, TagsDated}]

\* Media records of unusual name or type: a JPEG image whose name has no
\* extension, a JPEG image whose name ends in .xmp, and a record whose
\* FileType is not set ("-").
OddSlots ==
  <<[path |-> <<"a">>, ftype |-> "JPEG", ext |-> JPGX, comp |-> None,
     cids |-> {None}, mds |-> {0}, tags |-> {TagsFull}],
    [path |-> MediaName(<<"a">>, XMPX), ftype |-> "JPEG", ext |-> JPGX, comp |-> None,
     cids |-> {None}, mds |-> {0}, tags |-> {TagsFull}],
    [path |-> MediaName(<<"c">>, JPGX), ftype |-> "-", ext |-> JPGX, comp |-> None,
     cids |-> {None}, mds |-> {0}, tags |-> {TagsNone}]>>

\* Every file a scanned tree can hold, in scan order.
ScanSlots == Slots \o <<VideoDupe>> \o OddSlots

\* The paths of the files of tree in scan order.
ScanOrder(tree) ==
  LET RECURSIVE Scan(_)
      Scan(i) == IF i > Len(ScanSlots) THEN <<>>
                 ELSE IF ScanSlots[i].path \in DOMAIN tree
                      THEN <<ScanSlots[i].path>> \o Scan(i + 1)
                      ELSE Scan(i + 1)
  IN Scan(1)

\* ------------------------------------------------------------------------
\* prim/media.rs, prim/sidecar_initial.rs, prim/sidecar_dupe.rs
\* ------------------------------------------------------------------------

\* Media::get_codec.
get_codec(m) ==
  CASE m.file_type = "JPEG" -> "JPEG"
    [] m.file_type = "HEIC" -> "HEIC"
    [] m.file_type = "MOV" ->
         (CASE m.compressor_id = "avc1" -> "AVC"
            [] m.compressor_id \in {"hev1", "hvc1"} -> "HEVC"
            [] OTHER -> "Other")
    [] OTHER -> "Other"

\* Codec::rank (u8::MAX is 255).
rank(codec) ==
  CASE codec \in {"HEIC", "HEVC"} -> 255
    [] codec \in {"JPEG", "AVC"} -> 254
    [] OTHER -> 0

LIVE_PHOTO_IMAGE_EXTS == {"JPEG", "HEIC"}
LIVE_PHOTO_VIDEO_EXTS == {"MOV"}

\* Media::get_live_photo_component_type.
get_live_photo_component_type(m) ==
  IF m.content_identifier # None
  THEN IF m.file_type \in LIVE_PHOTO_IMAGE_EXTS THEN "Image"
       ELSE IF m.file_type \in LIVE_PHOTO_VIDEO_EXTS THEN "Video"
       ELSE None
  ELSE None

\* Media::get_modify_date: the ModifyDate tag when present, else the
\* modification time of the file.
get_modify_date(m) == IF m.modify_date # 0 THEN m.modify_date ELSE m.file_modify_date

\* Media::new: whether the constructor returns Ok.
MediaNewOk(m) ==
  /\ get_file_category(m) = "Media"
  /\ CASE get_live_photo_component_type(m) = "Image" -> get_codec(m) \in {"JPEG", "HEIC"}
       [] get_live_photo_component_type(m) = "Video" -> get_codec(m) \in {"AVC", "HEVC"}
       [] OTHER -> m.content_identifier = None

\* SidecarInitial::new and SidecarDupe::new: whether the constructor returns Ok.
BaseIsNotXmp(p) ==
  p.matched /\ [i \in DOMAIN p.base_ext |-> ToLower(p.base_ext[i])] # XMPX

SidecarNewOk(m, category) ==
  /\ get_file_category(m) = category
  /\ BaseIsNotXmp(parse_file_name(m.source_file))

\* A FileMap slot whose entry has been taken (Option::None).
Tombstone == [live |-> FALSE]

\* struct Media, with no sidecar linked.
NewMedia(m) == [live |-> TRUE, metadata |-> m, sidecar |-> 0, dupes |-> {}]

\* struct SidecarInitial and struct SidecarDupe, with no media linked.
NewSidecar(m) == [live |-> TRUE, metadata |-> m, media |-> 0]

\* ------------------------------------------------------------------------
\* prim/file_map.rs
\* ------------------------------------------------------------------------

\* FileMap::new.
EmptyMap == [data |-> <<>>, path_to_handle |-> <<>>]

\* FileMap::insert as it would be if it filled the first empty slot instead
\* of pushing.  C17_HandlesNeverReused does not hold of it.
InsertReusing(fm, path, entry) ==
  IF \A h \in DOMAIN fm.data : fm.data[h].live
  THEN [data |-> Append(fm.data, entry),
        path_to_handle |-> (path :> (Len(fm.data) + 1)) @@ fm.path_to_handle]
  ELSE [data |-> [fm.data EXCEPT ![CHOOSE h \in DOMAIN fm.data : ~fm.data[h].live] = entry],
        path_to_handle |-> (path :> (CHOOSE h \in DOMAIN fm.data : ~fm.data[h].live))
                             @@ fm.path_to_handle]

\* FileMap::insert: push the entry, and point the path at the new handle.
Insert(fm, path, entry) ==
  [data |-> Append(fm.data, entry),
   path_to_handle |-> (path :> (Len(fm.data) + 1)) @@ fm.path_to_handle]

\* FileMap::find (0 for Option::None).
Find(fm, path) == IF path \in DOMAIN fm.path_to_handle THEN fm.path_to_handle[path] ELSE 0

\* Whether slot h holds an entry (indexing a FileMap by h panics otherwise).
Live(fm, h) == h \in DOMAIN fm.data /\ fm.data[h].live

\* The handles FileMap::iter_data and its variants visit, in order.
LiveHandles(fm) == {h \in DOMAIN fm.data : fm.data[h].live}

\* get_entry_mut(h).take(): the slot becomes a tombstone.
Take(fm, h) == [fm EXCEPT !.data[h] = Tombstone]

\* ------------------------------------------------------------------------
\* prim/live_photos.rs
\* ------------------------------------------------------------------------

\* LivePhotoLinkMetadata::new.
LinkMeta(h, media) ==
  [media_handle |-> h, codec |-> get_codec(media.metadata),
   last_modified |-> get_modify_date(media.metadata)]

\* The order of LivePhotoLinkMetadata as it would be if the modify date were
\* compared first and the codec second.  C25_BestByRankThenDate does not
\* hold of it.
LinkLeqDateFirst(a, b) ==
  IF a.last_modified = b.last_modified
  THEN rank(a.codec) <= rank(b.codec)
  ELSE a.last_modified < b.last_modified

\* The order of LivePhotoLinkMetadata as it would be if only the codec were
\* compared.  C38_RemovedSetSameWhenStageReturns does not hold of it.
LinkLeqCodecOnly(a, b) == rank(a.codec) <= rank(b.codec)

\* impl Ord for LivePhotoLinkMetadata: a <= b.
LinkLeq(a, b) ==
  IF rank(a.codec) = rank(b.codec)
  THEN a.last_modified <= b.last_modified
  ELSE rank(a.codec) < rank(b.codec)

\* LivePhotoLinker::default.  A BinaryHeap is modelled by the set of its
\* elements: no handle is ever pushed twice onto the same heap.
EmptyLinker == [images |-> {}, videos |-> {}]

\* The elements BinaryHeap::peek can return: the maxima of the heap.
Best(heap) == {x \in heap : \A y \in heap : LinkLeq(y, x)}

\* is_leftover_videos as it would be if it looked at the video side: a group
\* without video counts as leftover.  C26_ExactlyImagelessGroupsRemoved does
\* not hold of it.
is_leftover_no_videos(l) == l.videos = {}

is_pair(l) == Cardinality(l.images) = 1 /\ Cardinality(l.videos) = 1
is_leftover_videos(l) == l.images = {}
has_duplicate_images(l) == Cardinality(l.images) > 1
has_duplicate_videos(l) == Cardinality(l.videos) > 1

\* ------------------------------------------------------------------------
\* State
\* ------------------------------------------------------------------------

VARIABLES
  pc,              \* the Organizer method the caller invokes next
  status,          \* "running", or how the run ended: "ok", "err", "panic"
  source,          \* the files under the source directory: path -> tags on disk
  trash,           \* Organizer::trash (some) and the paths under it (files)
  dst,             \* the paths under the destination directory
  media,           \* Organizer::media
  sidecars,        \* Organizer::sidecars
  dupes,           \* Organizer::dupes
  live_photo_map,  \* Organizer::live_photo_map: ContentIdentifier -> linker
  validation,      \* Organizer::validation: the enabled categories
  valid_media,     \* Organizer::valid_media
  force,           \* the argument `force` of move_and_rename_files once called
  calls,           \* the calls to functions of io.rs that changed the disk
  ran              \* the Organizer methods that have returned Ok

vars ==
  <<pc, status, source, trash, dst, media, sidecars, dupes, live_photo_map,
    validation, valid_media, force, calls, ran>>

\* The trash directories a run on tree can be given: none (import), an
\* empty one, or one that already holds a file of the same relative path
\* as a file of the tree.
TrashChoices(tree) ==
  {[some |-> FALSE, files |-> {}], [some |-> TRUE, files |-> {}]}
    \cup {[some |-> TRUE, files |-> {p}] :
            p \in {q \in {Slots[2].path} \cap DOMAIN tree : tree[q].content_identifier # None}}

\* The arguments of Organizer::new and the Default::default() fields.
Init ==
  /\ pc = "new"
  /\ status = "running"
  /\ source \in Trees(1, MaxFiles)
  /\ trash \in TrashChoices(source)
  /\ dst = {}
  /\ media = EmptyMap
  /\ sidecars = EmptyMap
  /\ dupes = EmptyMap
  /\ live_photo_map = <<>>
  /\ validation = {}
  /\ valid_media = {}
  /\ force = FALSE
  /\ calls = <<>>
  /\ ran = {}

\* A method returned Err (the caller propagates it with `?`) or panicked:
\* the run is over and the Organizer is dropped as it is; pc keeps the
\* name of the method that failed.
Stop(how) == /\ status' = how
             /\ pc' = pc

\* A method returned Ok; the caller goes on to `next`.
Return(name, next) == /\ status' = status
                      /\ pc' = next
                      /\ ran' = ran \cup {name}

\* ------------------------------------------------------------------------
\* org/mod.rs: load and link
\* ------------------------------------------------------------------------

\* One iteration of load_metadata (free function): the record m of
\* category cat goes through the constructor of its kind (ok becomes FALSE
\* when it returns Err) and into its map.
LoadOne(acc, m, cat) ==
  CASE cat = "Media" ->
         IF MediaNewOk(m)
         THEN [acc EXCEPT !.media = Insert(@, m.source_file, NewMedia(m))]
         ELSE [acc EXCEPT !.ok = FALSE]
    [] cat = "SidecarInitial" ->
         IF SidecarNewOk(m, cat)
         THEN [acc EXCEPT !.sidecars = Insert(@, m.source_file, NewSidecar(m))]
         ELSE [acc EXCEPT !.ok = FALSE]
    [] cat = "SidecarDupe" ->
         IF SidecarNewOk(m, cat)
         THEN [acc EXCEPT !.dupes = Insert(@, m.source_file, NewSidecar(m))]
         ELSE [acc EXCEPT !.ok = FALSE]

\* load_metadata (free function): the maps after the records of `paths`
\* from position i have been inserted, up to the first Err.  The assert!
\* of get_file_category panics on a record whose FileType is "-".
RECURSIVE LoadFrom(_, _, _, _)
LoadFrom(tree, paths, i, acc) ==
  IF i > Len(paths) \/ ~acc.ok \/ acc.panic THEN acc
  ELSE IF tree[paths[i]].file_type = "-" THEN [acc EXCEPT !.panic = TRUE]
  ELSE LoadFrom(tree, paths, i + 1,
                LoadOne(acc, tree[paths[i]], get_file_category(tree[paths[i]])))

\* LinkSidecar as it would be without set_media_handle: only the media
\* side of the link is set.  C6_ForwardLinksSound does not hold of it.
LinkSidecarMediaSideOnly(r, fld, i, hm) ==
  IF hm = 0 \/ ~Live(r.media, hm) THEN r
  ELSE [r EXCEPT !.media.data[hm].dupes = IF fld = "dupes" THEN @ \cup {i} ELSE @,
                 !.media.data[hm].sidecar = IF fld = "dupes" THEN @ ELSE i]

\* One iteration of link_sidecars_by_type over the map r[fld]: sidecar i
\* is linked to the media of handle hm (0: its media is not in the map),
\* with Media::add_dupe for the duplicates and Media::set_sidecar for the
\* others.  panic becomes TRUE when an index or an assertion fails.
LinkSidecar(r, fld, i, hm) ==
  IF hm = 0 THEN r
  ELSE IF \/ ~Live(r.media, hm)
          \/ fld = "sidecars" /\ r.media.data[hm].sidecar # 0
          \/ fld = "dupes" /\ i \in r.media.data[hm].dupes
          \/ r[fld].data[i].media # 0
  THEN [r EXCEPT !.panic = TRUE]
  ELSE [r EXCEPT ![fld].data[i].media = hm,
                 !.media.data[hm].dupes = IF fld = "dupes" THEN @ \cup {i} ELSE @,
                 !.media.data[hm].sidecar = IF fld = "dupes" THEN @ ELSE i]

\* link_sidecars_by_type: the maps after the live sidecars of r[fld] from
\* handle i on have been visited.
RECURSIVE link_sidecars_by_type(_, _, _)
link_sidecars_by_type(i, r, fld) ==
  IF i > Len(r[fld].data) \/ ~r.ok \/ r.panic THEN r
  ELSE IF ~r[fld].data[i].live THEN link_sidecars_by_type(i + 1, r, fld)
  ELSE link_sidecars_by_type(
         i + 1,
         LinkSidecar(r, fld, i, Find(r.media, get_media_path(r[fld].data[i].metadata))),
         fld)

\* LinkLivePhoto as it would be if both arms of the match pushed to the
\* image side.  C19_LinkedOnceOnItsSide does not hold of it.
LinkLivePhotoAsImage(lmap, i, m, comp, key) ==
  IF comp = None THEN lmap
  ELSE (key :> [images |-> (IF key \in DOMAIN lmap THEN lmap[key].images ELSE {})
                             \cup {LinkMeta(i, m)},
                videos |-> IF key \in DOMAIN lmap THEN lmap[key].videos ELSE {}]) @@ lmap

\* One iteration of link_live_photos (free function): media i with
\* metadata m is a component of kind comp.
LinkLivePhoto(lmap, i, m, comp, key) ==
  CASE comp = "Image" ->
         (key :> [images |-> (IF key \in DOMAIN lmap THEN lmap[key].images ELSE {})
                               \cup {LinkMeta(i, m)},
                  videos |-> IF key \in DOMAIN lmap THEN lmap[key].videos ELSE {}]) @@ lmap
    [] comp = "Video" ->
         (key :> [images |-> IF key \in DOMAIN lmap THEN lmap[key].images ELSE {},
                  videos |-> (IF key \in DOMAIN lmap THEN lmap[key].videos ELSE {})
                               \cup {LinkMeta(i, m)}]) @@ lmap
    [] OTHER -> lmap

\* link_live_photos (free function): the linker map after the live media
\* from handle i on have been visited.
RECURSIVE link_live_photos(_, _, _)
link_live_photos(i, mmap, lmap) ==
  IF i > Len(mmap.data) THEN lmap
  ELSE IF ~mmap.data[i].live THEN link_live_photos(i + 1, mmap, lmap)
  ELSE link_live_photos(
         i + 1, mmap,
         LinkLivePhoto(lmap, i, mmap.data[i],
                       get_live_photo_component_type(mmap.data[i].metadata),
                       mmap.data[i].metadata.content_identifier))

\* The end of Organizer::new, r being the maps loaded and linked.
Constructed(r) ==
  IF ~r.ok
  THEN /\ Stop("err")
       /\ UNCHANGED <<media, sidecars, dupes, live_photo_map, ran>>
  ELSE IF r.panic
  THEN /\ Stop("panic")
       /\ UNCHANGED <<media, sidecars, dupes, live_photo_map, ran>>
  ELSE /\ sidecars' = r.sidecars
       /\ dupes' = r.dupes
       /\ media' = r.media
       /\ live_photo_map' = link_live_photos(1, r.media, live_photo_map)
       /\ Return("new", "remove_live_photo_leftovers")

\* Organizer::new on an existing absolute catalog path: the scan is loaded
\* (Err when a constructor rejects a record), the sidecars and then the
\* duplicates are linked to their media, and the Live Photo components to
\* each other.
New ==
  /\ pc = "new"
  /\ status = "running"
  /\ Constructed(
       link_sidecars_by_type(
         1,
         link_sidecars_by_type(
           1,
           LoadFrom(source, ScanOrder(source), 1,
                    [ok |-> TRUE, panic |-> FALSE,
                     media |-> media, sidecars |-> sidecars, dupes |-> dupes]),
           "sidecars"),
         "dupes"))
  /\ UNCHANGED <<source, trash, dst, validation, valid_media, force, calls>>

\* ------------------------------------------------------------------------
\* io.rs: remove_file; org/stage_1_cleanup.rs
\* ------------------------------------------------------------------------

\* One entry of `calls`.
Call(op, file, from, to, kind, owner) ==
  [op |-> op, file |-> file, from |-> from, to |-> to, kind |-> kind, owner |-> owner]

\* The part of the state the stages work on; ok becomes FALSE when a call
\* returns Err, panic becomes TRUE when an index, unwrap or assertion fails.
World ==
  [ok |-> TRUE, panic |-> FALSE, media |-> media, sidecars |-> sidecars, dupes |-> dupes,
   lpm |-> live_photo_map, source |-> source, trash |-> trash, calls |-> calls]

\* remove_by_path as it would be if it deleted the file when there is no
\* trash directory.  C15_ImportModeKeepsFiles does not hold of it.
remove_by_path_or_delete(w, path, kind, owner) ==
  IF path \notin DOMAIN w.source \/ path \in w.trash.files
  THEN [w EXCEPT !.ok = FALSE]
  ELSE [w EXCEPT !.source = [q \in DOMAIN w.source \ {path} |-> w.source[q]],
                 !.trash.files = IF w.trash.some THEN @ \cup {path} ELSE @,
                 !.calls = Append(@, Call("remove_file", path, <<>>, path, kind, owner))]

\* remove_by_path with io::remove_file: without a trash directory nothing
\* happens; otherwise the file moves to the same relative path under trash.
\* Err when the file is not on disk (make_canonical) or the trash path is
\* taken.
remove_by_path(w, path, kind, owner) ==
  IF ~w.trash.some THEN w
  ELSE IF path \notin DOMAIN w.source \/ path \in w.trash.files
  THEN [w EXCEPT !.ok = FALSE]
  ELSE [w EXCEPT !.source = [q \in DOMAIN w.source \ {path} |-> w.source[q]],
                 !.trash.files = @ \cup {path},
                 !.calls = Append(@, Call("remove_file", path, <<>>, path, kind, owner))]

\* The elements of set S in the order they have in the sequence ord.
InOrder(S, ord) == SelectSeq(ord, LAMBDA x : x \in S)

HandlesOf(heap) == {x.media_handle : x \in heap}

\* The loop body shared by both passes over Live Photo media: for the
\* handles hs[i..], take the Media entry (Err when the slot is a tombstone)
\* and remove its file.
RECURSIVE RemoveMedia(_, _, _)
RemoveMedia(w, hs, i) ==
  IF i > Len(hs) \/ ~w.ok THEN w
  ELSE IF ~Live(w.media, hs[i]) THEN [w EXCEPT !.ok = FALSE]
  ELSE RemoveMedia(
         remove_by_path([w EXCEPT !.media = Take(@, hs[i])],
                        w.media.data[hs[i]].metadata.source_file, "Media", hs[i]),
         hs, i + 1)

\* remove_live_photo_leftovers: the loop over the leftover groups keys[i..];
\* link.drain() yields the images, then the videos, each in heap order.
RECURSIVE RemoveLeftovers(_, _, _, _)
RemoveLeftovers(w, keys, i, ord) ==
  IF i > Len(keys) \/ ~w.ok THEN w
  ELSE RemoveLeftovers(
         RemoveMedia(w,
                     InOrder(HandlesOf(live_photo_map[keys[i]].images), ord)
                       \o InOrder(HandlesOf(live_photo_map[keys[i]].videos), ord),
                     1),
         keys, i + 1, ord)

\* Every handle held by some linker.
LinkedHandles == UNION {HandlesOf(live_photo_map[k].images) \cup HandlesOf(live_photo_map[k].videos) :
                          k \in DOMAIN live_photo_map}

\* Writes the part of the state a stage works on.
SetWorld(w) ==
  /\ media' = w.media
  /\ sidecars' = w.sidecars
  /\ dupes' = w.dupes
  /\ live_photo_map' = w.lpm
  /\ source' = w.source
  /\ trash' = w.trash
  /\ calls' = w.calls

\* After a stage: how the run goes on.
Finish(w, name, next) ==
  IF w.panic THEN Stop("panic") /\ UNCHANGED ran
  ELSE IF ~w.ok THEN Stop("err") /\ UNCHANGED ran
  ELSE Return(name, next)

\* The end of the method `name`, which leaves the Organizer as w.
EndStage(w, name, next) == SetWorld(w) /\ Finish(w, name, next)

\* The groups remove_live_photo_leftovers partitions off: no image.
Leftovers == {k \in DOMAIN live_photo_map : is_leftover_videos(live_photo_map[k])}

\* Organizer::remove_live_photo_leftovers.  The linker map is emptied and
\* only the groups with an image are put back; the media of the other
\* groups are taken and their files removed.  korder and ord are the
\* iteration orders of the HashMap and of the heaps.
RemoveLivePhotoLeftovers ==
  /\ pc = "remove_live_photo_leftovers"
  /\ status = "running"
  /\ \E korder \in Perms(Leftovers), ord \in Perms(LinkedHandles) :
       EndStage(RemoveLeftovers(
                  [World EXCEPT !.lpm = [k \in DOMAIN live_photo_map \ Leftovers |->
                                           live_photo_map[k]]],
                  korder, 1, ord),
                "remove_live_photo_leftovers", "remove_live_photo_duplicates")
  /\ UNCHANGED <<dst, validation, valid_media, force>>

\* KeepBest as it would be if the best handle were not pushed back after
\* the drain.  C24_OneBestMemberKept does not hold of it.
KeepNone(w, side, key, handle) ==
  IF ~w.ok THEN w
  ELSE IF ~Live(w.media, handle) THEN [w EXCEPT !.panic = TRUE]
  ELSE w

\* The end of one iteration of remove_live_photo_duplicates_by_type: the
\* best handle is pushed back with the metadata of its Media (indexing a
\* tombstone panics).  When a removal failed the drained heap stays empty.
KeepBest(w, side, key, handle) ==
  IF ~w.ok THEN w
  ELSE IF ~Live(w.media, handle) THEN [w EXCEPT !.panic = TRUE]
  ELSE [w EXCEPT !.lpm[key][side] = {LinkMeta(handle, w.media.data[handle])}]

\* Deduplicate as it would be without its loop: no member is taken and the
\* heap keeps every member.  C4_NoDuplicatesAfterStage1 does not hold of it.
DeduplicateNothing(w, side, key, handle, ord) == w

\* Deduplicate as it would be without drain and insert: the members but the
\* best are taken, and the heap keeps their handles.
\* C5_LinkerHandlesLive does not hold of it.
DeduplicateKeepingHandles(w, side, key, handle, ord) ==
  RemoveMedia(w, InOrder(HandlesOf(w.lpm[key][side]) \ {handle}, ord), 1)

\* One iteration of remove_live_photo_duplicates_by_type on a group with
\* duplicates: the heap is drained and every member but the best (handle)
\* is taken and removed.
Deduplicate(w, side, key, handle, ord) ==
  KeepBest(RemoveMedia([w EXCEPT !.lpm[key][side] = {}],
                       InOrder(HandlesOf(w.lpm[key][side]) \ {handle}, ord), 1),
           side, key, handle)

\* The argument has_duplicates of remove_live_photo_duplicates_by_type.
HasDuplicates(l, side) ==
  IF side = "images" THEN has_duplicate_images(l) ELSE has_duplicate_videos(l)

\* remove_live_photo_duplicates_by_type for the side `side` ("images" or
\* "videos"): the loop over the groups keys[i..].  Ties among the maxima
\* and the drain order follow ord.
RECURSIVE remove_live_photo_duplicates_by_type(_, _, _, _, _)
remove_live_photo_duplicates_by_type(w, side, keys, i, ord) ==
  IF i > Len(keys) \/ ~w.ok \/ w.panic THEN w
  ELSE IF ~HasDuplicates(w.lpm[keys[i]], side)
  THEN remove_live_photo_duplicates_by_type(w, side, keys, i + 1, ord)
  ELSE remove_live_photo_duplicates_by_type(
         Deduplicate(w, side, keys[i],
                     InOrder(HandlesOf(Best(w.lpm[keys[i]][side])), ord)[1], ord),
         side, keys, i + 1, ord)

\* Organizer::remove_live_photo_duplicates: the images of every group,
\* then the videos of every group.
RemoveLivePhotoDuplicates ==
  /\ pc = "remove_live_photo_duplicates"
  /\ status = "running"
  /\ \E korder1, korder2 \in Perms(DOMAIN live_photo_map), ord \in Perms(LinkedHandles) :
       EndStage(remove_live_photo_duplicates_by_type(
                  remove_live_photo_duplicates_by_type(World, "images", korder1, 1, ord),
                  "videos", korder2, 1, ord),
                "remove_live_photo_duplicates", "remove_sidecar_leftovers")
  /\ UNCHANGED <<dst, validation, valid_media, force>>

\* The leftover entries of the sidecar map fld: live, without media handle.
LeftoverSidecars(w, fld) ==
  {i \in DOMAIN w[fld].data : w[fld].data[i].live /\ w[fld].data[i].media = 0}

\* RemoveLeftoverSidecars as it would be if a dupe also counted as leftover
\* when its media has no initial sidecar.  C27_ExactlyUnlinkedSidecarsTaken
\* does not hold of it.
RECURSIVE RemoveSidecarsWithoutInitial(_, _, _)
RemoveSidecarsWithoutInitial(w, fld, i) ==
  IF i > Len(w[fld].data) \/ ~w.ok THEN w
  ELSE IF /\ w[fld].data[i].live
          /\ \/ w[fld].data[i].media = 0
             \/ /\ fld = "dupes"
                /\ Live(w.media, w[fld].data[i].media)
                /\ w.media.data[w[fld].data[i].media].sidecar = 0
  THEN RemoveSidecarsWithoutInitial(
         remove_by_path([w EXCEPT ![fld] = Take(@, i)],
                        w[fld].data[i].metadata.source_file,
                        IF fld = "dupes" THEN "SidecarDupe" ELSE "SidecarInitial", i),
         fld, i + 1)
  ELSE RemoveSidecarsWithoutInitial(w, fld, i + 1)

\* RemoveLeftoverSidecars as it would be if the loop stopped after the first
\* leftover: a second invocation finds the next one.
\* C14_Stage1Idempotent does not hold of it.
RemoveLeftoverSidecarsFirstOnly(w, fld, i) ==
  IF LeftoverSidecars(w, fld) = {} \/ ~w.ok THEN w
  ELSE remove_by_path(
         [w EXCEPT ![fld] = Take(@, CHOOSE j \in LeftoverSidecars(w, fld) :
                                      \A k \in LeftoverSidecars(w, fld) : j <= k)],
         w[fld].data[CHOOSE j \in LeftoverSidecars(w, fld) :
                       \A k \in LeftoverSidecars(w, fld) : j <= k].metadata.source_file,
         IF fld = "dupes" THEN "SidecarDupe" ELSE "SidecarInitial",
         CHOOSE j \in LeftoverSidecars(w, fld) : \A k \in LeftoverSidecars(w, fld) : j <= k)

\* The loop of remove_sidecar_leftovers over one sidecar map (field fld of
\* the world, "sidecars" or "dupes"), from handle i on: every live entry
\* without a media handle is taken and its file removed.
RECURSIVE RemoveLeftoverSidecars(_, _, _)
RemoveLeftoverSidecars(w, fld, i) ==
  IF i > Len(w[fld].data) \/ ~w.ok THEN w
  ELSE IF w[fld].data[i].live /\ w[fld].data[i].media = 0
  THEN RemoveLeftoverSidecars(
         remove_by_path([w EXCEPT ![fld] = Take(@, i)],
                        w[fld].data[i].metadata.source_file,
                        IF fld = "dupes" THEN "SidecarDupe" ELSE "SidecarInitial", i),
         fld, i + 1)
  ELSE RemoveLeftoverSidecars(w, fld, i + 1)

\* Organizer::remove_sidecar_leftovers.
RemoveSidecarLeftovers ==
  /\ pc = "remove_sidecar_leftovers"
  /\ status = "running"
  /\ EndStage(RemoveLeftoverSidecars(RemoveLeftoverSidecars(World, "sidecars", 1), "dupes", 1),
              "remove_sidecar_leftovers", "create_missing_sidecars")
  /\ UNCHANGED <<dst, validation, valid_media, force>>

\* ------------------------------------------------------------------------
\* io.rs: create_xmp, copy_metadata; org/stage_2_sidecars.rs
\* ------------------------------------------------------------------------

\* Path::extension: the part of the file name after its last ".", <<>>
\* when there is none.
RECURSIVE LastDot(_, _)
LastDot(s, i) == IF i = 0 THEN 0 ELSE IF s[i] = "." THEN i ELSE LastDot(s, i - 1)

Extension(path) ==
  IF LastDot(path, Len(path)) <= 1 THEN <<>>
  ELSE SubSeq(path, LastDot(path, Len(path)) + 1, Len(path))

\* PathBuf::add_extension("xmp").
XmpPath(path) == path \o <<".">> \o XMPX

\* create_xmp: Err when the media file is not on disk, has no extension or
\* the extension xmp, or when <media>.xmp exists; otherwise the tool writes
\* the new file from the tags of the media file, and its tags are read back.
create_xmp_ok(w, path) ==
  /\ path \in DOMAIN w.source
  /\ Extension(path) # <<>>
  /\ Extension(path) # XMPX
  /\ XmpPath(path) \notin DOMAIN w.source

create_xmp_file(w, path) ==
  Meta(XmpPath(path), "XMP", XMPX, None, None, 0, TagsOf(w.source[path]))

\* create_missing_sidecars after io::create_xmp wrote the file m for media
\* i at path: SidecarInitial::new(m)? and FileMap::insert.  Neither
\* Media::set_sidecar nor SidecarInitial::set_media_handle is called.
Created(w, i, path, m, ok) ==
  [w EXCEPT !.ok = ok,
            !.source = (m.source_file :> m) @@ @,
            !.sidecars = IF ok THEN Insert(@, m.source_file, NewSidecar(m)) ELSE @,
            !.calls = Append(@, Call("create_xmp", m.source_file, path, m.source_file,
                                     "SidecarInitial", i))]

\* One iteration of create_missing_sidecars, for media i at path.
CreateSidecar(w, i, path) ==
  IF ~create_xmp_ok(w, path) THEN [w EXCEPT !.ok = FALSE]
  ELSE Created(w, i, path, create_xmp_file(w, path),
               SidecarNewOk(create_xmp_file(w, path), "SidecarInitial"))

\* The loop of create_missing_sidecars from media handle i on.
RECURSIVE CreateMissing(_, _)
CreateMissing(w, i) ==
  IF i > Len(w.media.data) \/ ~w.ok THEN w
  ELSE IF ~w.media.data[i].live \/ w.media.data[i].sidecar # 0 THEN CreateMissing(w, i + 1)
  ELSE CreateMissing(CreateSidecar(w, i, w.media.data[i].metadata.source_file), i + 1)

\* Organizer::create_missing_sidecars.
CreateMissingSidecars ==
  /\ pc = "create_missing_sidecars"
  /\ status = "running"
  /\ EndStage(CreateMissing(World, 1), "create_missing_sidecars", "apply_metadata_updates")
  /\ UNCHANGED <<dst, validation, valid_media, force>>

\* copy_metadata(src, dst) of io.rs: Err when either file is not on disk;
\* otherwise every tag set in src is written to dst, and the tags of dst
\* are read back.
copy_metadata_ok(w, src, to) == src \in DOMAIN w.source /\ to \in DOMAIN w.source

copy_metadata_file(w, src, to) ==
  [t \in TagNames |-> IF IsSet(w.source[src], t) THEN w.source[src][t] ELSE w.source[to][t]]
    @@ w.source[to]

\* ------------------------------------------------------------------------
\* org/stage_3_metadata.rs
\* ------------------------------------------------------------------------

\* The update configurations the caller can enable before
\* apply_metadata_updates.  No scanned file carries GPS coordinates, so
\* the two GPS updates never issue a write and are not listed.
UpdateConfigs == {{}, {"align_mwg_tags", "set_copyright_from_creator"}}

\* The metadata a stage works from for media h: that of its sidecar when
\* one is linked, else its own.
SourceMeta(w, h) ==
  IF w.media.data[h].sidecar # 0
  THEN w.sidecars.data[w.media.data[h].sidecar].metadata
  ELSE w.media.data[h].metadata

\* "-Copyright<Copyright ${Creator}" on the file f: the tool reads Creator
\* from the file, and writes nothing when the file has none.
WithCopyright(f) ==
  IF f.creator # None THEN [f EXCEPT !.copyright = "Copyright " \o f.creator] ELSE f

\* The main pass of apply_metadata_updates for media i when there is an
\* argument: run_exiftool on path (Err when it is not on disk), then
\* read_metadata and update_metadata of the sidecar hs, or of the media
\* when hs = 0.
WriteCopyright(w, i, hs, path, kind) ==
  IF path \notin DOMAIN w.source THEN [w EXCEPT !.ok = FALSE]
  ELSE [w EXCEPT !.source[path] = WithCopyright(@),
                 !.sidecars = IF hs # 0
                              THEN [@ EXCEPT !.data[hs].metadata = WithCopyright(w.source[path])]
                              ELSE @,
                 !.media = IF hs = 0
                           THEN [@ EXCEPT !.data[i].metadata = WithCopyright(w.source[path])]
                           ELSE @,
                 !.calls = Append(Append(@, Call("write_tags", path, <<>>, path, kind, i)),
                                  Call("read_metadata", path, <<>>, path, kind, i))]

\* MainPass as it would be if the write went to the media file whatever the
\* metadata it works from.  C30_Stage3WritesItsSourceOnly does not hold of
\* it.
MainPassOnMedia(w, cfg, i, md) ==
  IF "set_copyright_from_creator" \in cfg /\ md.creator # None /\ md.copyright = None
  THEN WriteCopyright(w, i, w.media.data[i].sidecar, w.media.data[i].metadata.source_file,
                      "Media")
  ELSE w

\* The main pass of apply_metadata_updates for media i, md being the
\* metadata it works from.
MainPass(w, cfg, i, md) ==
  IF "set_copyright_from_creator" \in cfg /\ md.creator # None /\ md.copyright = None
  THEN WriteCopyright(w, i, w.media.data[i].sidecar, md.source_file, get_file_category(md))
  ELSE w

\* The second pass of apply_metadata_updates for media i, md being the
\* metadata it works from: the MWG tags of a media file are aligned.  The
\* block ends with run_exiftool: there is no read_metadata and no
\* update_metadata after it.
AlignMwg(w, cfg, i, md) ==
  IF "align_mwg_tags" \notin cfg \/ get_file_category(md) # "Media" THEN w
  ELSE IF md.source_file \notin DOMAIN w.source THEN [w EXCEPT !.ok = FALSE]
  ELSE [w EXCEPT !.calls = Append(@, Call("align_mwg", md.source_file, <<>>,
                                          md.source_file, "Media", i))]

\* The second pass, after the main pass left w.
SecondPass(w, cfg, i) == IF ~w.ok THEN w ELSE AlignMwg(w, cfg, i, SourceMeta(w, i))

\* The loop of apply_metadata_updates from media handle i on.
RECURSIVE ApplyUpdates(_, _, _)
ApplyUpdates(w, cfg, i) ==
  IF i > Len(w.media.data) \/ ~w.ok \/ w.panic THEN w
  ELSE IF ~w.media.data[i].live THEN ApplyUpdates(w, cfg, i + 1)
  ELSE IF w.media.data[i].sidecar # 0 /\ ~Live(w.sidecars, w.media.data[i].sidecar)
  THEN [w EXCEPT !.panic = TRUE]
  ELSE ApplyUpdates(SecondPass(MainPass(w, cfg, i, SourceMeta(w, i)), cfg, i), cfg, i + 1)

\* Organizer::apply_metadata_updates, after the enable_* calls for cfg.
ApplyMetadataUpdates ==
  /\ pc = "apply_metadata_updates"
  /\ status = "running"
  /\ \E cfg \in UpdateConfigs :
       EndStage(IF cfg = {} THEN World ELSE ApplyUpdates(World, cfg, 1),
                "apply_metadata_updates", "sync_live_photo_metadata")
  /\ UNCHANGED <<dst, validation, valid_media, force>>

\* ------------------------------------------------------------------------
\* org/stage_4_synchronization.rs
\* ------------------------------------------------------------------------

\* io::copy_metadata(src, to)? and update_metadata of the entry h of the
\* map w[fld], whose file is `to`.
CopyTo(w, src, to, fld, h, kind) ==
  IF ~copy_metadata_ok(w, src, to) THEN [w EXCEPT !.ok = FALSE]
  ELSE [w EXCEPT !.source[to] = copy_metadata_file(w, src, to),
                 ![fld].data[h].metadata = copy_metadata_file(w, src, to),
                 !.calls = Append(@, Call("copy_metadata", to, src, to, kind, h))]

\* The start of an iteration of sync_live_photo_metadata.  The arguments
\* of the log::warn! for a group that is not a pair drain the linker and
\* index the media map; they are evaluated only when the log level lets
\* warnings through (warn).  There is no `continue` after the warning.
Warned(w, key, warn) ==
  IF is_pair(w.lpm[key]) \/ ~warn THEN w
  ELSE IF \E h \in HandlesOf(w.lpm[key].images) \cup HandlesOf(w.lpm[key].videos) :
            ~Live(w.media, h)
  THEN [w EXCEPT !.panic = TRUE]
  ELSE [w EXCEPT !.lpm[key] = EmptyLinker]

\* SyncToVideo as it would be if the sidecar of the video were left as it
\* is.  C33_VideoDupesCarryImageMetadata does not hold of it.
SyncToVideoSkipped(w, si, hv) ==
  IF ~Live(w.media, hv) THEN [w EXCEPT !.panic = TRUE] ELSE w

\* The end of an iteration of sync_live_photo_metadata: the sidecar si of
\* the image is copied to the sidecar of the best video hv.
SyncToVideo(w, si, hv) ==
  IF ~Live(w.media, hv) THEN [w EXCEPT !.panic = TRUE]
  ELSE IF w.media.data[hv].sidecar = 0 THEN w
  ELSE IF ~Live(w.sidecars, w.media.data[hv].sidecar) THEN [w EXCEPT !.panic = TRUE]
  ELSE CopyTo(w, w.sidecars.data[si].metadata.source_file,
              w.sidecars.data[w.media.data[hv].sidecar].metadata.source_file,
              "sidecars", w.media.data[hv].sidecar, "SidecarInitial")

\* The middle of an iteration of sync_live_photo_metadata, hi being the
\* best image of the group: get_video_best unwraps the top of the heap of
\* videos.
SyncFromImage(w, key, hi, ord) ==
  IF ~Live(w.media, hi) THEN [w EXCEPT !.panic = TRUE]
  ELSE IF w.media.data[hi].sidecar = 0 THEN w
  ELSE IF ~Live(w.sidecars, w.media.data[hi].sidecar) THEN [w EXCEPT !.panic = TRUE]
  ELSE IF w.lpm[key].videos = {} THEN [w EXCEPT !.panic = TRUE]
  ELSE SyncToVideo(w, w.media.data[hi].sidecar,
                   InOrder(HandlesOf(Best(w.lpm[key].videos)), ord)[1])

\* SyncLivePhoto as it would be if the iteration ended after the warning: a
\* group the warning has drained is left empty and the loop goes on.
\* C29_Stage4KeepsGroups does not hold of it.
SyncLivePhotoAfterContinue(w, key, ord) ==
  IF w.panic \/ w.lpm[key].images = {} THEN w
  ELSE SyncFromImage(w, key, InOrder(HandlesOf(Best(w.lpm[key].images)), ord)[1], ord)

\* One iteration of sync_live_photo_metadata after the warning:
\* get_image_best unwraps the top of the heap of images.
SyncLivePhoto(w, key, ord) ==
  IF w.panic \/ w.lpm[key].images = {} THEN [w EXCEPT !.panic = TRUE]
  ELSE SyncFromImage(w, key, InOrder(HandlesOf(Best(w.lpm[key].images)), ord)[1], ord)

\* The loop of sync_live_photo_metadata over the groups keys[i..].
RECURSIVE SyncLivePhotos(_, _, _, _, _)
SyncLivePhotos(w, keys, i, warn, ord) ==
  IF i > Len(keys) \/ ~w.ok \/ w.panic THEN w
  ELSE SyncLivePhotos(SyncLivePhoto(Warned(w, keys[i], warn), keys[i], ord),
                      keys, i + 1, warn, ord)

\* Organizer::sync_live_photo_metadata.
SyncLivePhotoMetadata ==
  /\ pc = "sync_live_photo_metadata"
  /\ status = "running"
  /\ \E warn \in BOOLEAN, korder \in Perms(DOMAIN live_photo_map), ord \in Perms(LinkedHandles) :
       EndStage(SyncLivePhotos(World, korder, 1, warn, ord),
                "sync_live_photo_metadata", "sync_dupe_metadata")
  /\ UNCHANGED <<dst, validation, valid_media, force>>

\* The inner loop of sync_dupe_metadata: copy the sidecar at path src to
\* the duplicates hs[j..].
RECURSIVE SyncToDupes(_, _, _, _)
SyncToDupes(w, src, hs, j) ==
  IF j > Len(hs) \/ ~w.ok \/ w.panic THEN w
  ELSE IF ~Live(w.dupes, hs[j]) THEN [w EXCEPT !.panic = TRUE]
  ELSE SyncToDupes(CopyTo(w, src, w.dupes.data[hs[j]].metadata.source_file,
                          "dupes", hs[j], "SidecarDupe"),
                   src, hs, j + 1)

\* The outer loop of sync_dupe_metadata from sidecar handle i on; dord is
\* the iteration order of the HashSets of duplicate handles.
RECURSIVE SyncDupes(_, _, _)
SyncDupes(w, i, dord) ==
  IF i > Len(w.sidecars.data) \/ ~w.ok \/ w.panic THEN w
  ELSE IF ~w.sidecars.data[i].live \/ w.sidecars.data[i].media = 0 THEN SyncDupes(w, i + 1, dord)
  ELSE IF ~Live(w.media, w.sidecars.data[i].media) THEN [w EXCEPT !.panic = TRUE]
  ELSE SyncDupes(
         SyncToDupes(w, w.sidecars.data[i].metadata.source_file,
                     InOrder(w.media.data[w.sidecars.data[i].media].dupes, dord), 1),
         i + 1, dord)

\* Organizer::sync_dupe_metadata.
SyncDupeMetadata ==
  /\ pc = "sync_dupe_metadata"
  /\ status = "running"
  /\ \E dord \in Perms(DOMAIN dupes.data) :
       EndStage(SyncDupes(World, 1, dord), "sync_dupe_metadata", "validate")
  /\ UNCHANGED <<dst, validation, valid_media, force>>

\* ------------------------------------------------------------------------
\* org/stage_5_validation.rs
\* ------------------------------------------------------------------------

\* The sets of categories the enable_*_validation calls of a caller leave
\* enabled (none, all).
ValidationChoices ==
  {{}, {"attribution", "camera", "date_time", "location"}}

validate_attribution(m) == m.creator # None /\ m.copyright # None

validate_camera(m) == m.make # None /\ m.model # None

\* Whether the date DateTab[a] is before DateTab[b].
DateBefore(a, b) ==
  LET key(d) == <<d.y, d.mo, d.d, d.h, d.mi, d.s, d.ms>>
      ka == key(DateTab[a])
      kb == key(DateTab[b])
  IN \E i \in 1..7 : ka[i] < kb[i] /\ \A j \in 1..(i - 1) : ka[j] = kb[j]

validate_date_time(m) ==
  /\ m.date_time_original # 0
  /\ DateTab[m.date_time_original].tz
  /\ m.create_date # 0
  /\ DateTab[m.create_date].tz
  /\ ~DateBefore(m.create_date, m.date_time_original)

validate_location(m) ==
  m.gps_position # None /\ m.city # None /\ m.state # None /\ m.country # None

\* The closure of filter_map in validate as it would be if a media passed
\* when it passes some enabled check.  C34_ValidSetIsExact does not hold of
\* it.
ValidForSome(m, config) ==
  \/ "attribution" \in config /\ validate_attribution(m)
  \/ "camera" \in config /\ validate_camera(m)
  \/ "date_time" \in config /\ validate_date_time(m)
  \/ "location" \in config /\ validate_location(m)

\* The closure of filter_map in validate (free function).
Valid(m, config) ==
  /\ "attribution" \in config => validate_attribution(m)
  /\ "camera" \in config => validate_camera(m)
  /\ "date_time" \in config => validate_date_time(m)
  /\ "location" \in config => validate_location(m)

\* The enable_*_validation calls of the caller (config is what they leave
\* enabled), then Organizer::validate.  Indexing the sidecar map with the
\* handle of a tombstone panics.
ValidateWith(config) ==
  /\ validation' = config
  /\ IF config = {}
     THEN Return("validate", "move_and_rename_files") /\ UNCHANGED valid_media
     ELSE IF \E h \in LiveHandles(media) :
                media.data[h].sidecar # 0 /\ ~Live(sidecars, media.data[h].sidecar)
     THEN Stop("panic") /\ UNCHANGED <<valid_media, ran>>
     ELSE /\ valid_media' = valid_media \cup
               {h \in LiveHandles(media) : Valid(SourceMeta(World, h), config)}
          /\ Return("validate", "move_and_rename_files")

\* Organizer::validate after the enable_*_validation calls of catalog org
\* and catalog import.
Validate ==
  /\ pc = "validate"
  /\ status = "running"
  /\ \E config \in ValidationChoices : ValidateWith(config)
  /\ UNCHANGED <<source, trash, dst, media, sidecars, dupes, live_photo_map, force, calls>>

\* ------------------------------------------------------------------------
\* io.rs: move_file; org/stage_6_organization.rs
\* ------------------------------------------------------------------------

\* The letters of the copy number %+lc of DATETIME_WRITE_FORMAT.
Letters ==
  <<"b", "c", "d", "e", "f", "g", "h", "i", "j", "k", "l", "m", "n",
    "o", "p", "q", "r", "s", "t", "u", "v", "w", "x", "y", "z">>

\* %+lc: nothing for the first file of a name, then _b, _c, ...
CopySuffix(n) == IF n = 0 THEN <<>> ELSE <<"_", Letters[n]>>

\* FormatDate as it would be without %-3f: the time has six digits.
\* C10_DestinationNames does not hold of it.
FormatDateNoMillis(d) ==
  Pad(d.y, 4) \o <<"/">> \o Pad(d.mo, 2) \o <<"/">>
    \o Pad(d.y % 100, 2) \o Pad(d.mo, 2) \o Pad(d.d, 2) \o <<"_">>
    \o Pad(d.h, 2) \o Pad(d.mi, 2) \o Pad(d.s, 2)

\* DATETIME_WRITE_FORMAT without the copy number: %Y/%m/%y%m%d_%H%M%S%-3f.
FormatDate(d) ==
  Pad(d.y, 4) \o <<"/">> \o Pad(d.mo, 2) \o <<"/">>
    \o Pad(d.y % 100, 2) \o Pad(d.mo, 2) \o Pad(d.d, 2) \o <<"_">>
    \o Pad(d.h, 2) \o Pad(d.mi, 2) \o Pad(d.s, 2) \o Pad(d.ms, 3)

\* The date the file is named from: of the -FileName< assignments of
\* move_file the last one whose tag exists wins (0 when none exists).
RenameDate(m) ==
  IF m.date_time_original # 0 THEN m.date_time_original ELSE m.create_date

\* The first copy number from n on for which base, copy number and ending
\* name no file under the destination.
RECURSIVE FreeCopy(_, _, _, _)
FreeCopy(taken, base, ending, n) ==
  IF base \o CopySuffix(n) \o ending \notin taken THEN n
  ELSE FreeCopy(taken, base, ending, n + 1)

\* The name move_file gives a file: the formatted date, the first free
\* copy number among the names under the destination, and the ending.
Target(taken, base, ending) == base \o CopySuffix(FreeCopy(taken, base, ending, 0)) \o ending

\* io::move_file(src, Some(msrc), dst, ending): Err when a path does not
\* exist (make_canonical) or no date tag is found ("0 image files updated").
move_file(w, src, msrc, ending, kind, owner) ==
  IF src \notin DOMAIN w.source \/ msrc \notin DOMAIN w.source THEN [w EXCEPT !.ok = FALSE]
  ELSE IF RenameDate(w.source[msrc]) = 0 THEN [w EXCEPT !.ok = FALSE]
  ELSE [w EXCEPT
          !.source = [q \in DOMAIN w.source \ {src} |-> w.source[q]],
          !.dst = @ \cup {Target(w.dst, FormatDate(DateTab[RenameDate(w.source[msrc])]), ending)},
          !.calls = Append(@, Call("move_file", src, msrc,
                                   Target(w.dst, FormatDate(DateTab[RenameDate(w.source[msrc])]),
                                          ending),
                                   kind, owner))]

\* The state the stage-6 loops work on.
World6 == [dst |-> dst] @@ World

\* Whether take_media, take_sidecar or take_dupes unwraps a tombstone for
\* media handle h.
TakePanics(w, h) ==
  \/ ~Live(w.media, h)
  \/ w.media.data[h].sidecar # 0 /\ ~Live(w.sidecars, w.media.data[h].sidecar)
  \/ \E d \in w.media.data[h].dupes : ~Live(w.dupes, d)

\* take_media, take_sidecar and take_dupes for media handle h.
TakeAll(w, h) ==
  [w EXCEPT !.media = Take(@, h),
            !.sidecars = IF w.media.data[h].sidecar # 0
                         THEN Take(@, w.media.data[h].sidecar) ELSE @,
            !.dupes.data = [d \in DOMAIN @ |->
                              IF d \in w.media.data[h].dupes THEN Tombstone ELSE @[d]]]

\* pick_source: the path of the sidecar when there is one, else of the
\* media; pre is the state the entries were taken from.
pick_source(pre, h) ==
  IF pre.media.data[h].sidecar # 0
  THEN pre.sidecars.data[pre.media.data[h].sidecar].metadata.source_file
  ELSE pre.media.data[h].metadata.source_file

\* One iteration of the first loop of move_media_with_deps: the duplicate
\* at path, whose name parses as parsed (get_dupe_number unwraps the
\* duplicate number), moves to <date>_<nn>.<ext>.xmp.
MoveDupe(w, path, parsed, msrc, ext, owner) ==
  IF ~parsed.matched \/ parsed.dupe_number = <<>> THEN [w EXCEPT !.panic = TRUE]
  ELSE move_file(w, path, msrc,
                 <<"_">> \o parsed.dupe_number \o <<".">> \o ext \o <<".">> \o XMPX,
                 "SidecarDupe", owner)

\* The first loop of move_media_with_deps: the duplicates ds[j..] of the
\* media `owner`, taken from state pre.
RECURSIVE MoveDupes(_, _, _, _, _, _, _)
MoveDupes(w, pre, msrc, ext, ds, j, owner) ==
  IF j > Len(ds) \/ ~w.ok \/ w.panic THEN w
  ELSE MoveDupes(MoveDupe(w, pre.dupes.data[ds[j]].metadata.source_file,
                          parse_file_name(pre.dupes.data[ds[j]].metadata.source_file),
                          msrc, ext, owner),
                 pre, msrc, ext, ds, j + 1, owner)

\* The second step of move_media_with_deps: the media file m moves to
\* <date>.<ext>.
MoveMediaFile(w, m, msrc, h) ==
  IF ~w.ok \/ w.panic THEN w
  ELSE move_file(w, m.metadata.source_file, msrc,
                 <<".">> \o m.metadata.file_type_extension, "Media", h)

\* The last step of move_media_with_deps: the initial sidecar of the media
\* m, when it has one, moves to <date>.<ext>.xmp.
MoveSidecarFile(w, pre, m, msrc, h) ==
  IF ~w.ok \/ w.panic \/ m.sidecar = 0 THEN w
  ELSE move_file(w, pre.sidecars.data[m.sidecar].metadata.source_file, msrc,
                 <<".">> \o m.metadata.file_type_extension \o <<".">> \o XMPX,
                 "SidecarInitial", h)

\* move_media_with_deps in the order duplicates, initial sidecar, media.
\* C8_DupesThenMediaThenSidecar does not hold of it.
MoveSidecarBeforeMedia(w, pre, msrc, h, dord) ==
  MoveMediaFile(
    MoveSidecarFile(
      MoveDupes(w, pre, msrc, pre.media.data[h].metadata.file_type_extension,
                InOrder(pre.media.data[h].dupes, dord), 1, h),
      pre, pre.media.data[h], msrc, h),
    pre.media.data[h], msrc, h)

\* move_media_with_deps for the media of handle h taken from state pre:
\* its duplicates, then the media file, then its initial sidecar.
move_media_with_deps(w, pre, msrc, h, dord) ==
  MoveSidecarFile(
    MoveMediaFile(
      MoveDupes(w, pre, msrc, pre.media.data[h].metadata.file_type_extension,
                InOrder(pre.media.data[h].dupes, dord), 1, h),
      pre.media.data[h], msrc, h),
    pre, pre.media.data[h], msrc, h)

\* The loop over link.drain() in the Live Photo loop: the members hs[i..]
\* other than the main image are taken, and moved with the metadata source
\* of the main image when it may move.
RECURSIVE MoveMembers(_, _, _, _, _, _)
MoveMembers(w, hs, i, msrc, should_move, dord) ==
  IF i > Len(hs) \/ ~w.ok \/ w.panic THEN w
  ELSE IF TakePanics(w, hs[i]) THEN [w EXCEPT !.panic = TRUE]
  ELSE MoveMembers(
         IF should_move THEN move_media_with_deps(TakeAll(w, hs[i]), w, msrc, hs[i], dord)
         ELSE TakeAll(w, hs[i]),
         hs, i + 1, msrc, should_move, dord)

\* The end of an iteration of the Live Photo loop: the main image, taken
\* from state pre, moves last.
MoveMain(w, pre, handle_main, should_move, dord) ==
  IF ~w.ok \/ w.panic \/ ~should_move THEN w
  ELSE move_media_with_deps(w, pre, pick_source(pre, handle_main), handle_main, dord)

\* The members of a group as link.drain() yields them, without the main
\* image.
Members(link, handle_main, ord) ==
  SelectSeq(InOrder(HandlesOf(link.images), ord) \o InOrder(HandlesOf(link.videos), ord),
            LAMBDA h : h # handle_main)

\* MoveGroup as it would be if the main image moved before the other
\* members of its group.  C23_SourceMovedLast does not hold of it.
MoveGroupMainFirst(w, link, handle_main, should_move, ord, dord) ==
  IF TakePanics(w, handle_main) THEN [w EXCEPT !.panic = TRUE]
  ELSE MoveMembers(MoveMain(TakeAll(w, handle_main), w, handle_main, should_move, dord),
                   Members(link, handle_main, ord), 1,
                   pick_source(w, handle_main), should_move, dord)

\* One iteration of the Live Photo loop, for a group with an image whose
\* best image is handle_main.
MoveGroup(w, link, handle_main, should_move, ord, dord) ==
  IF TakePanics(w, handle_main) THEN [w EXCEPT !.panic = TRUE]
  ELSE MoveMain(MoveMembers(TakeAll(w, handle_main), Members(link, handle_main, ord), 1,
                            pick_source(w, handle_main), should_move, dord),
                w, handle_main, should_move, dord)

\* should_move of the Live Photo loop.
ShouldMove(frc, handle_main) == frc \/ handle_main \in valid_media

\* The Live Photo loop of move_and_rename_files over the groups keys[i..].
RECURSIVE MoveLivePhotos(_, _, _, _, _, _)
MoveLivePhotos(w, keys, i, frc, ord, dord) ==
  IF i > Len(keys) \/ ~w.ok \/ w.panic THEN w
  ELSE IF is_leftover_videos(w.lpm[keys[i]]) THEN MoveLivePhotos(w, keys, i + 1, frc, ord, dord)
  ELSE MoveLivePhotos(
         MoveGroup(w, w.lpm[keys[i]],
                   InOrder(HandlesOf(Best(w.lpm[keys[i]].images)), ord)[1],
                   ShouldMove(frc, InOrder(HandlesOf(Best(w.lpm[keys[i]].images)), ord)[1]),
                   ord, dord),
         keys, i + 1, frc, ord, dord)

\* The loop of move_and_rename_files over the media that are still live,
\* from handle i on.
RECURSIVE MoveOthers(_, _, _, _)
MoveOthers(w, i, frc, dord) ==
  IF i > Len(w.media.data) \/ ~w.ok \/ w.panic THEN w
  ELSE IF ~w.media.data[i].live THEN MoveOthers(w, i + 1, frc, dord)
  ELSE IF TakePanics(w, i) THEN [w EXCEPT !.panic = TRUE]
  ELSE MoveOthers(
         IF frc \/ i \in valid_media
         THEN move_media_with_deps(TakeAll(w, i), w, pick_source(w, i), i, dord)
         ELSE TakeAll(w, i),
         i + 1, frc, dord)

\* The end of move_and_rename_files, which leaves the Organizer as w.
EndMove(w) ==
  /\ SetWorld(w)
  /\ dst' = w.dst
  /\ IF w.panic THEN Stop("panic") /\ UNCHANGED ran
     ELSE IF ~w.ok THEN Stop("err") /\ UNCHANGED ran
     ELSE /\ status' = "ok"
          /\ pc' = "done"
          /\ ran' = ran \cup {"move_and_rename_files"}

\* Organizer::move_and_rename_files(dst, force) with an existing absolute
\* dst.  The method consumes the Organizer: the maps are left as they are
\* when it is dropped.
MoveAndRenameFiles ==
  /\ pc = "move_and_rename_files"
  /\ status = "running"
  /\ \E frc \in BOOLEAN, korder \in Perms(DOMAIN live_photo_map),
        ord \in Perms(LinkedHandles), dord \in Perms(DOMAIN dupes.data) :
       /\ force' = frc
       /\ IF validation = {} /\ ~frc
          THEN EndMove(World6)
          ELSE EndMove(MoveOthers(MoveLivePhotos(World6, korder, 1, frc, ord, dord),
                                  1, frc, dord))
  /\ UNCHANGED <<validation, valid_media>>

Next ==
  \/ New
  \/ RemoveLivePhotoLeftovers
  \/ RemoveLivePhotoDuplicates
  \/ RemoveSidecarLeftovers
  \/ CreateMissingSidecars
  \/ ApplyMetadataUpdates
  \/ SyncLivePhotoMetadata
  \/ SyncDupeMetadata
  \/ Validate
  \/ MoveAndRenameFiles

Spec == Init /\ [][Next]_vars

\* ------------------------------------------------------------------------
\* prim/file_map.rs: a FileMap under any sequence of inserts and takes
\* ------------------------------------------------------------------------

\* The paths entries are inserted under.
FmPaths == {MediaName(<<"a">>, JPGX), MediaName(<<"b">>, JPGX), MediaName(<<"a">>, MOVX)}

\* The value stored by the n-th operation (the T of FileMap<T>).
FmEntry(n) == [live |-> TRUE, value |-> n]

\* FileMap::new; the map under test is `sidecars`, `calls` logs the
\* operations and the handle each one concerned.
FmInit ==
  /\ pc = "file_map"
  /\ status = "running"
  /\ source = <<>>
  /\ trash = [some |-> FALSE, files |-> {}]
  /\ dst = {}
  /\ media = EmptyMap
  /\ sidecars = EmptyMap
  /\ dupes = EmptyMap
  /\ live_photo_map = <<>>
  /\ validation = {}
  /\ valid_media = {}
  /\ force = FALSE
  /\ calls = <<>>
  /\ ran = {}

\* map.insert(path, data), and map.find(path) for the handle it assigned.
FmInsert ==
  /\ pc = "file_map"
  /\ Len(calls) < MaxOps
  /\ \E path \in FmPaths :
       /\ sidecars' = Insert(sidecars, path, FmEntry(Len(calls) + 1))
       /\ calls' = Append(calls, Call("insert", path, <<>>, <<>>, None,
                                      Find(Insert(sidecars, path, FmEntry(Len(calls) + 1)), path)))
  /\ UNCHANGED <<pc, status, source, trash, dst, media, dupes, live_photo_map,
                 validation, valid_media, force, ran>>

\* map.get_entry_mut(h).take() on a slot that holds an entry.
FmTake ==
  /\ pc = "file_map"
  /\ Len(calls) < MaxOps
  /\ \E h \in LiveHandles(sidecars) :
       /\ sidecars' = Take(sidecars, h)
       /\ calls' = Append(calls, Call("take", <<>>, <<>>, <<>>, None, h))
  /\ UNCHANGED <<pc, status, source, trash, dst, media, dupes, live_photo_map,
                 validation, valid_media, force, ran>>

FmNext ==
  \/ FmInsert
  \/ FmTake

FileMapSpec == FmInit /\ [][FmNext]_vars

\* ------------------------------------------------------------------------
\* commands.rs: the run over a tree whose video a.mov has an initial and a
\* duplicate sidecar
\* ------------------------------------------------------------------------

\* The trees that hold a.mov, a.mov.xmp and a_01.mov.xmp, and at most
\* MaxFiles files besides the duplicate.
PairTrees ==
  {(VideoDupe.path :> f) @@ t :
     f \in SlotFiles(VideoDupe),
     t \in {u \in Trees(1, MaxFiles) :
              {MediaName(<<"a">>, MOVX), SidecarName(<<"a">>, MOVX)} \subseteq DOMAIN u}}

\* The arguments of Organizer::new for such a tree.
PairInit ==
  /\ pc = "new"
  /\ status = "running"
  /\ source \in PairTrees
  /\ trash \in TrashChoices(source)
  /\ dst = {}
  /\ media = EmptyMap
  /\ sidecars = EmptyMap
  /\ dupes = EmptyMap
  /\ live_photo_map = <<>>
  /\ validation = {}
  /\ valid_media = {}
  /\ force = FALSE
  /\ calls = <<>>
  /\ ran = {}

PairSpec == PairInit /\ [][Next]_vars

\* ------------------------------------------------------------------------
\* commands.rs: the run over a tree of Live Photo groups with up to three
\* images or two videos each, any one file of which is already in the trash
\* ------------------------------------------------------------------------

\* The candidate files of such a tree: every one carries a content
\* identifier.
GroupSlots ==
  <<[path |-> MediaName(<<"a">>, HEICX), ftype |-> "HEIC", ext |-> HEICX, comp |-> None,
     cids |-> {"X"}, mds |-> {0}, tags |-> {TagsFull}],
    [path |-> MediaName(<<"a">>, JPGX), ftype |-> "JPEG", ext |-> JPGX, comp |-> None,
     cids |-> {"X"}, mds |-> {0, 2}, tags |-> {TagsFull}],
    [path |-> MediaName(<<"b">>, JPGX), ftype |-> "JPEG", ext |-> JPGX, comp |-> None,
     cids |-> {"X", "Y"}, mds |-> {0}, tags |-> {TagsFull}],
    [path |-> MediaName(<<"b", "_", "0", "1">>, JPGX), ftype |-> "JPEG", ext |-> JPGX,
     comp |-> None, cids |-> {"Y"}, mds |-> {0, 2}, tags |-> {TagsFull}],
    [path |-> MediaName(<<"a">>, MOVX), ftype |-> "MOV", ext |-> MOVX, comp |-> "hvc1",
     cids |-> {"X"}, mds |-> {0}, tags |-> {TagsFull}],
    [path |-> MediaName(<<"b">>, MOVX), ftype |-> "MOV", ext |-> MOVX, comp |-> "hvc1",
     cids |-> {"X", "Y"}, mds |-> {2}, tags |-> {TagsFull}]>>

\* The trees made of the candidates GroupSlots[i..] with at most k files.
RECURSIVE GroupTrees(_, _)
GroupTrees(i, k) ==
  IF i > Len(GroupSlots) THEN {<<>>}
  ELSE GroupTrees(i + 1, k) \cup
       (IF k = 0 THEN {}
        ELSE {(GroupSlots[i].path :> f) @@ t :
                f \in SlotFiles(GroupSlots[i]), t \in GroupTrees(i + 1, k - 1)})

\* The trash directories of such a run: none, an empty one, or one that
\* already holds a file of the same relative path as a file of the tree.
GroupTrashChoices(tree) ==
  {[some |-> FALSE, files |-> {}], [some |-> TRUE, files |-> {}]}
    \cup {[some |-> TRUE, files |-> {p}] : p \in DOMAIN tree}

\* The arguments of Organizer::new for such a tree.
GroupInit ==
  /\ pc = "new"
  /\ status = "running"
  /\ source \in GroupTrees(1, MaxFiles)
  /\ trash \in GroupTrashChoices(source)
  /\ dst = {}
  /\ media = EmptyMap
  /\ sidecars = EmptyMap
  /\ dupes = EmptyMap
  /\ live_photo_map = <<>>
  /\ validation = {}
  /\ valid_media = {}
  /\ force = FALSE
  /\ calls = <<>>
  /\ ran = {}

GroupSpec == GroupInit /\ [][Next]_vars

\* ------------------------------------------------------------------------
\* org/stage_5_validation.rs: the stages under any validation configuration
\* ------------------------------------------------------------------------

\* The fields of ValidationConfig.
ValidationCategories == {"attribution", "camera", "date_time", "location"}

\* The arguments of Organizer::new for a tree of at most MaxSmallTree files.
ConfigInit ==
  /\ pc = "new"
  /\ status = "running"
  /\ source \in Trees(1, MaxSmallTree)
  /\ trash \in TrashChoices(source)
  /\ dst = {}
  /\ media = EmptyMap
  /\ sidecars = EmptyMap
  /\ dupes = EmptyMap
  /\ live_photo_map = <<>>
  /\ validation = {}
  /\ valid_media = {}
  /\ force = FALSE
  /\ calls = <<>>
  /\ ran = {}

\* Organizer::validate after any of the enable_*_validation calls.
ValidateAny ==
  /\ pc = "validate"
  /\ status = "running"
  /\ \E config \in SUBSET ValidationCategories : ValidateWith(config)
  /\ UNCHANGED <<source, trash, dst, media, sidecars, dupes, live_photo_map, force, calls>>

ConfigNext ==
  \/ New
  \/ RemoveLivePhotoLeftovers
  \/ RemoveLivePhotoDuplicates
  \/ RemoveSidecarLeftovers
  \/ CreateMissingSidecars
  \/ ApplyMetadataUpdates
  \/ SyncLivePhotoMetadata
  \/ SyncDupeMetadata
  \/ ValidateAny
  \/ MoveAndRenameFiles

ConfigSpec == ConfigInit /\ [][ConfigNext]_vars

\* ------------------------------------------------------------------------
\* org/mod.rs: the run over a tree that holds media records of unusual
\* name or type
\* ------------------------------------------------------------------------

\* The trees made of the records OddSlots[i..].
RECURSIVE OddTrees(_)
OddTrees(i) ==
  IF i > Len(OddSlots) THEN {<<>>}
  ELSE OddTrees(i + 1) \cup
       {(OddSlots[i].path :> f) @@ t : f \in SlotFiles(OddSlots[i]), t \in OddTrees(i + 1)}

\* The arguments of Organizer::new for a tree of such records and at most
\* MaxSmallTree usual files.
LoadInit ==
  /\ pc = "new"
  /\ status = "running"
  /\ source \in {o @@ t : o \in OddTrees(1), t \in Trees(1, MaxSmallTree)}
  /\ trash \in TrashChoices(source)
  /\ dst = {}
  /\ media = EmptyMap
  /\ sidecars = EmptyMap
  /\ dupes = EmptyMap
  /\ live_photo_map = <<>>
  /\ validation = {}
  /\ valid_media = {}
  /\ force = FALSE
  /\ calls = <<>>
  /\ ran = {}

LoadSpec == LoadInit /\ [][Next]_vars

\* ------------------------------------------------------------------------
\* io.rs: remove_file on a disk without symbolic links
\* ------------------------------------------------------------------------

\* Absolute paths are sequences of components.  The catalog, the trash
\* directory commands.rs makes inside it, and a directory outside both.
IoCatalog == <<"r">>
IoTrash == <<"r", "t">>
IoOutside == <<"o">>

\* The values of the argument dir_root: the catalog or a directory of it.
IoRoots == {IoCatalog, <<"r", "d">>}

\* The regular files a disk can hold.
IoFiles ==
  {<<"r", "a">>, <<"r", "d", "a">>, <<"r", "t", "a">>, <<"r", "t", "d", "a">>,
   <<"r", "t", "d">>, <<"o", "a">>}

\* The values of the argument file: the files, and a file written with a
\* `.` component.
IoArguments == IoFiles \cup {<<"r", ".", "a">>}

\* The directories on the way to path p, p excluded.
Ancestors(p) == {SubSeq(p, 1, n) : n \in 1..(Len(p) - 1)}

\* The disk that holds the regular files fs: every entry with its kind.
DiskOf(fs) ==
  [p \in fs \cup {IoCatalog, IoTrash, IoOutside, <<"r", "d">>}
          \cup UNION {Ancestors(f) : f \in fs} |->
     IF p \in fs THEN "file" ELSE "dir"]

\* Path::canonicalize on a disk without symbolic links: the `.` components
\* go.
canonicalize(p) == SelectSeq(p, LAMBDA c : c # ".")

\* Path::starts_with: component-wise prefix.
starts_with(p, d) == Len(d) <= Len(p) /\ SubSeq(p, 1, Len(d)) = d

\* Path::strip_prefix, for a path that starts with d.
strip_prefix(p, d) == SubSeq(p, Len(d) + 1, Len(p))

\* make_canonical returns Ok: the path exists (every model path is
\* absolute).
MakeCanonicalOk(disk, p) == canonicalize(p) \in DOMAIN disk

\* fs::create_dir_all(d) on disk: the missing directories down to d.
create_dir_all(disk, d) ==
  [p \in (Ancestors(d) \cup {d}) \ DOMAIN disk |-> "dir"] @@ disk

\* fs::create_dir_all(d) fails: a component of d is a regular file.
CreateDirFails(disk, d) ==
  \E p \in Ancestors(d) \cup {d} : p \in DOMAIN disk /\ disk[p] = "file"

\* fs::rename(from, to) of a regular file.
rename(disk, from, to) ==
  [p \in (DOMAIN disk \ {from}) \cup {to} |-> IF p = to THEN disk[from] ELSE disk[p]]

\* The end of remove_file once the checks have passed: the two unwraps.
MoveToTrash(disk, file, path_trash) ==
  IF CreateDirFails(disk, SubSeq(path_trash, 1, Len(path_trash) - 1))
  THEN [result |-> "panic", disk |-> disk]
  ELSE [result |-> "ok",
        disk |-> rename(create_dir_all(disk, SubSeq(path_trash, 1, Len(path_trash) - 1)),
                        file, path_trash)]

\* remove_file as it would be without the check for a name collision:
\* rename replaces the file in the trash.
\* C40_RemoveFileMovesOrFails does not hold of it.
remove_file_over_collision(disk, dir_root, dir_trash, file) ==
  IF \/ ~MakeCanonicalOk(disk, dir_root)
     \/ ~MakeCanonicalOk(disk, dir_trash)
     \/ ~MakeCanonicalOk(disk, file)
     \/ starts_with(canonicalize(file), canonicalize(dir_trash))
     \/ ~starts_with(canonicalize(file), canonicalize(dir_root))
  THEN [result |-> "err", disk |-> disk]
  ELSE MoveToTrash(disk, canonicalize(file),
                   canonicalize(dir_trash)
                     \o strip_prefix(canonicalize(file), canonicalize(dir_root)))

\* io::remove_file(dir_root, dir_trash, file): the result and the disk it
\* leaves.
remove_file(disk, dir_root, dir_trash, file) ==
  IF \/ ~MakeCanonicalOk(disk, dir_root)
     \/ ~MakeCanonicalOk(disk, dir_trash)
     \/ ~MakeCanonicalOk(disk, file)
  THEN [result |-> "err", disk |-> disk]
  ELSE IF starts_with(canonicalize(file), canonicalize(dir_trash))
  THEN [result |-> "err", disk |-> disk]
  ELSE IF ~starts_with(canonicalize(file), canonicalize(dir_root))
  THEN [result |-> "err", disk |-> disk]
  ELSE IF (canonicalize(dir_trash)
             \o strip_prefix(canonicalize(file), canonicalize(dir_root))) \in DOMAIN disk
  THEN [result |-> "err", disk |-> disk]
  ELSE MoveToTrash(disk, canonicalize(file),
                   canonicalize(dir_trash)
                     \o strip_prefix(canonicalize(file), canonicalize(dir_root)))

\* Any disk: `source` maps every path on it to "file" or "dir"; `calls`
\* holds the last call of remove_file with its result.
IoInit ==
  /\ pc = "io"
  /\ status = "running"
  /\ source \in {DiskOf(fs) : fs \in {s \in SUBSET IoFiles :
                                        ~({<<"r", "t", "d">>, <<"r", "t", "d", "a">>} \subseteq s)}}
  /\ trash = [some |-> TRUE, files |-> {}]
  /\ dst = {}
  /\ media = EmptyMap
  /\ sidecars = EmptyMap
  /\ dupes = EmptyMap
  /\ live_photo_map = <<>>
  /\ validation = {}
  /\ valid_media = {}
  /\ force = FALSE
  /\ calls = <<>>
  /\ ran = {}

\* The call remove_file(dir_root, IoTrash, file) ended as r.
IoEnd(dir_root, file, r) ==
  /\ source' = r.disk
  /\ calls' = <<[op |-> "remove_file", dir_root |-> dir_root, file |-> file,
                 result |-> r.result]>>
  /\ status' = IF r.result = "panic" THEN "panic" ELSE "running"

\* One call of remove_file.  After Err the caller may call again; a panic
\* ends the process.
IoRemoveFile ==
  /\ pc = "io"
  /\ status = "running"
  /\ \E dir_root \in IoRoots, file \in IoArguments :
       IoEnd(dir_root, file, remove_file(source, dir_root, IoTrash, file))
  /\ UNCHANGED <<pc, trash, dst, media, sidecars, dupes, live_photo_map, validation,
                 valid_media, force, ran>>

IoNext == IoRemoveFile

IoSpec == IoInit /\ [][IoNext]_vars

\* ------------------------------------------------------------------------
\* org/stage_3_metadata.rs, prim/conv.rs: the time zone update of one file
\* ------------------------------------------------------------------------

\* Date-times are whole hours counted from a reference midnight; offsets
\* are whole hours east of UTC.  A naive local date-time is a number of
\* hours without offset.
TzHours == 0..15

\* The zones the finder returns for the coordinates of the file.
TzZones == {"UTC", "Europe/Berlin", "America/Los_Angeles"}

\* The instants at which America/Los_Angeles moves its clocks forward
\* (local 2 becomes 3) and back (local 12 becomes 11), in hours UTC.
TzForward == 10
TzBack == 19

\* The offset a zone observes at the instant utc.
ZoneOffsetAt(zone, utc) ==
  IF zone = "UTC" THEN 0
  ELSE IF zone = "Europe/Berlin" THEN 1
  ELSE IF utc >= TzForward /\ utc < TzBack THEN -7
  ELSE -8

\* Every offset some zone observes.
TzOffsets == {-8, -7, 0, 1}

\* TimeZone::offset_from_local_datetime: the offsets under which the local
\* date-time is what the zone shows.  None when empty, Single when one,
\* Ambiguous when two.
offset_from_local_datetime(zone, date_time) ==
  {o \in TzOffsets : ZoneOffsetAt(zone, date_time - o) = o}

\* prim::get_offset_for_time_zone: LocalResult::unwrap panics unless the
\* result is Single.
get_offset_for_time_zone(date_time, zone) ==
  IF Cardinality(offset_from_local_datetime(zone, date_time)) # 1
  THEN [panic |-> TRUE, offset |-> 0]
  ELSE [panic |-> FALSE,
        offset |-> CHOOSE o \in offset_from_local_datetime(zone, date_time) : TRUE]

\* The file of the update: `source` maps it to its DateTimeOriginal as
\* parse_date_time returns it (date_time, the naive local part, and offset,
\* an Option written as a set: empty when the tag has none), and to the
\* zone of its coordinates (None without coordinates).
TzFile == MediaName(<<"a">>, JPGX)

TzInit ==
  /\ pc = "time_zone"
  /\ status = "running"
  /\ source \in {TzFile :> [date_time |-> t, offset |-> o, zone |-> z] :
                   t \in TzHours, o \in {{}} \cup {{x} : x \in TzOffsets}, z \in TzZones \cup {None}}
  /\ trash = [some |-> FALSE, files |-> {}]
  /\ dst = {}
  /\ media = EmptyMap
  /\ sidecars = EmptyMap
  /\ dupes = EmptyMap
  /\ live_photo_map = <<>>
  /\ validation = {}
  /\ valid_media = {}
  /\ force = FALSE
  /\ calls = <<>>
  /\ ran = {}

\* The write of the update once the offset r is derived: DateTimeOriginal
\* is the naive date-time read, under the derived offset
\* (and_local_timezone), and OffsetTimeOriginal is that offset.
TzWrite(m, r) ==
  IF r.panic
  THEN status' = "panic" /\ UNCHANGED <<source, calls>>
  ELSE /\ source' = (TzFile :> [m EXCEPT !.offset = {r.offset}])
       /\ calls' = Append(calls, Call("write_tags", TzFile, <<>>, <<>>, "Media", 1))
       /\ status' = "ok"

\* The time zone part of the main pass of apply_metadata_updates on the
\* file, set_time_zone_from_gps enabled.
SetTimeZoneFromGps ==
  /\ pc = "time_zone"
  /\ status = "running"
  /\ IF source[TzFile].zone = None
     THEN status' = "ok" /\ UNCHANGED <<source, calls>>
     ELSE TzWrite(source[TzFile],
                  get_offset_for_time_zone(source[TzFile].date_time, source[TzFile].zone))
  /\ UNCHANGED <<pc, trash, dst, media, sidecars, dupes, live_photo_map, validation,
                 valid_media, force, ran>>

TzNext == SetTimeZoneFromGps

TzSpec == TzInit /\ [][TzNext]_vars

\* ------------------------------------------------------------------------
\* prim/live_photos.rs: one side of a LivePhotoLinker under any members
\* ------------------------------------------------------------------------

\* The kinds of media pushed: file type, extension and CompressorID.
LkKinds ==
  {<<"JPEG", JPGX, None>>, <<"HEIC", HEICX, None>>, <<"MOV", MOVX, "avc1">>,
   <<"MOV", MOVX, "hvc1">>, <<"MOV", MOVX, "mp4v">>}

\* The ModifyDate tags of the media pushed (0: absent, the modification
\* time of the file, 1, stands in).
LkDates == {0, 2, 3}

\* The names of the media pushed, by handle.
LkStems == <<"a", "b", "c", "d", "e">>

\* The Media of the given kind and ModifyDate that gets handle h.
LkMedia(h, kind, md) ==
  NewMedia(Meta(MediaName(<<LkStems[h]>>, kind[2]), kind[1], kind[2], kind[3], "X", md, TagsNone))

\* An empty media map and no linker; valid_media holds the handle the last
\* get_image_best returned.
LkInit ==
  /\ pc = "linker"
  /\ status = "running"
  /\ source = <<>>
  /\ trash = [some |-> FALSE, files |-> {}]
  /\ dst = {}
  /\ media = EmptyMap
  /\ sidecars = EmptyMap
  /\ dupes = EmptyMap
  /\ live_photo_map = <<>>
  /\ validation = {}
  /\ valid_media = {}
  /\ force = FALSE
  /\ calls = <<>>
  /\ ran = {}

\* media.insert(path, m) and link.insert_image(handle, m) on the linker of
\* "X".
LkInsertImage ==
  /\ pc = "linker"
  /\ Len(media.data) < MaxHeap
  /\ \E kind \in LkKinds, md \in LkDates :
       /\ media' = Insert(media, LkMedia(Len(media.data) + 1, kind, md).metadata.source_file,
                          LkMedia(Len(media.data) + 1, kind, md))
       /\ live_photo_map' = LinkLivePhoto(live_photo_map, Len(media.data) + 1,
                                          LkMedia(Len(media.data) + 1, kind, md), "Image", "X")
  /\ valid_media' = {}
  /\ UNCHANGED <<pc, status, source, trash, dst, sidecars, dupes, validation, force, calls, ran>>

\* link.get_image_best(): the handle of an element BinaryHeap::peek can
\* return.
LkGetImageBest ==
  /\ pc = "linker"
  /\ "X" \in DOMAIN live_photo_map
  /\ \E x \in Best(live_photo_map["X"].images) : valid_media' = {x.media_handle}
  /\ UNCHANGED <<pc, status, source, trash, dst, media, sidecars, dupes, live_photo_map,
                 validation, force, calls, ran>>

LkNext ==
  \/ LkInsertImage
  \/ LkGetImageBest

LinkerSpec == LkInit /\ [][LkNext]_vars

\* ------------------------------------------------------------------------
\* Properties
\* ------------------------------------------------------------------------

\* The points of a run from the end of loading through the end of stage 5:
\* Organizer::new has returned, move_and_rename_files has not been entered,
\* and no method has panicked.
ThroughStage5 ==
  /\ "new" \in ran
  /\ \/ status = "running"
     \/ status = "err" /\ pc # "move_and_rename_files"

\* The media slots that are tombstones.
TakenMedia == DOMAIN media.data \ LiveHandles(media)

\* The back-link of every live initial sidecar, when set, points at a live
\* Media whose sidecar handle is that sidecar.
SidecarBackLinksSound ==
  \A s \in LiveHandles(sidecars) :
    sidecars.data[s].media # 0 =>
      /\ Live(media, sidecars.data[s].media)
      /\ media.data[sidecars.data[s].media].sidecar = s

\* The back-link of every live duplicate sidecar, when set, points at a
\* live Media whose set of duplicates holds that sidecar.
DupeBackLinksSound ==
  \A d \in LiveHandles(dupes) :
    dupes.data[d].media # 0 =>
      /\ Live(media, dupes.data[d].media)
      /\ d \in media.data[dupes.data[d].media].dupes

\* C1: at every point from the end of loading through the end of stage 5,
\* every live SidecarInitial or SidecarDupe whose back-link is set points
\* at a live Media slot whose sidecar handle (initial sidecar) or set of
\* duplicates (duplicate sidecar) contains the sidecar's own handle.
C1_BackLinksSound == ThroughStage5 => SidecarBackLinksSound /\ DupeBackLinksSound

\* Media h has its sidecar handle set to a live SidecarInitial whose
\* back-link is h.
LinkedBothSides(h) ==
  /\ media.data[h].sidecar # 0
  /\ Live(sidecars, media.data[h].sidecar)
  /\ sidecars.data[media.data[h].sidecar].media = h

\* C2: when create_missing_sidecars has returned Ok, every live Media has
\* its sidecar handle set to a live SidecarInitial whose back-link is that
\* media.
C2_EveryMediaLinkedAfterStage2 ==
  (pc = "apply_metadata_updates" /\ status = "running") =>
    \A h \in LiveHandles(media) : LinkedBothSides(h)

\* The handle of the one member of a heap that has one member.
Only(heap) == CHOOSE h \in HandlesOf(heap) : TRUE

\* Group k is one sync_live_photo_metadata may copy for: exactly one image
\* and one video, both live and both with a live sidecar.
Qualifies(k) ==
  /\ is_pair(live_photo_map[k])
  /\ Live(media, Only(live_photo_map[k].images))
  /\ Live(media, Only(live_photo_map[k].videos))
  /\ media.data[Only(live_photo_map[k].images)].sidecar # 0
  /\ media.data[Only(live_photo_map[k].videos)].sidecar # 0
  /\ Live(sidecars, media.data[Only(live_photo_map[k].images)].sidecar)
  /\ Live(sidecars, media.data[Only(live_photo_map[k].videos)].sidecar)

\* The call c copies the sidecar of the image of group k to the sidecar of
\* its video.
CopiesPair(c, k) ==
  /\ c.op = "copy_metadata"
  /\ c.from = sidecars.data[media.data[Only(live_photo_map[k].images)].sidecar]
                .metadata.source_file
  /\ c.to = sidecars.data[media.data[Only(live_photo_map[k].videos)].sidecar]
              .metadata.source_file

\* C3: sync_live_photo_metadata copies only for the groups with exactly one
\* image and one video that both have a sidecar; for every other group it
\* writes nothing and goes on, so that it does not panic, and returns Ok
\* with nothing written when no group qualifies.
C3_SyncSkipsOtherGroups ==
  [][(pc = "sync_live_photo_metadata" /\ status = "running") =>
       /\ status' # "panic"
       /\ \A i \in (Len(calls) + 1)..Len(calls') :
            \E k \in DOMAIN live_photo_map : Qualifies(k) /\ CopiesPair(calls'[i], k)
       /\ (\A k \in DOMAIN live_photo_map : ~Qualifies(k)) =>
            status' = "running" /\ calls' = calls]_vars

\* The three passes of stage 1.
Stage1Passes ==
  {"remove_live_photo_leftovers", "remove_live_photo_duplicates", "remove_sidecar_leftovers"}

\* C4: once the three passes of stage 1 have returned Ok, no linker entry
\* has more than one image, none has more than one video, and none has
\* videos without an image.
C4_NoDuplicatesAfterStage1 ==
  Stage1Passes \subseteq ran =>
    \A k \in DOMAIN live_photo_map :
      /\ Cardinality(live_photo_map[k].images) <= 1
      /\ Cardinality(live_photo_map[k].videos) <= 1
      /\ ~(live_photo_map[k].videos # {} /\ live_photo_map[k].images = {})

\* Stage 1 returned Ok after taking at least two media, and left a group
\* with one image and one video.
C4_Witness ==
  /\ Stage1Passes \subseteq ran
  /\ pc = "create_missing_sidecars"
  /\ Cardinality(TakenMedia) >= 2
  /\ \E k \in DOMAIN live_photo_map : is_pair(live_photo_map[k])

\* C5: at every point from the end of loading through the end of stage 5,
\* every handle on the image or video side of a linker entry refers to a
\* live Media whose content_identifier is the key of the entry.
C5_LinkerHandlesLive ==
  ThroughStage5 =>
    \A k \in DOMAIN live_photo_map :
      \A h \in HandlesOf(live_photo_map[k].images) \cup HandlesOf(live_photo_map[k].videos) :
        /\ Live(media, h)
        /\ media.data[h].metadata.content_identifier = k

\* Stage 5 has returned, some media was taken on the way, and a linker
\* entry still holds an image and a video.
C5_Witness ==
  /\ ThroughStage5
  /\ pc = "move_and_rename_files"
  /\ TakenMedia # {}
  /\ \E k \in DOMAIN live_photo_map :
       live_photo_map[k].images # {} /\ live_photo_map[k].videos # {}

\* C6: at every point from the end of loading through the end of stage 5,
\* the sidecar handle of every live Media, when set, refers to a live
\* SidecarInitial whose back-link is the media, and every handle in its
\* set of duplicates refers to a live SidecarDupe whose back-link is the
\* media.
C6_ForwardLinksSound ==
  ThroughStage5 =>
    \A h \in LiveHandles(media) :
      /\ media.data[h].sidecar # 0 => LinkedBothSides(h)
      /\ \A d \in media.data[h].dupes : Live(dupes, d) /\ dupes.data[d].media = h

\* Stage 5 has returned, a leftover sidecar was taken in stage 1, and a
\* live media has both an initial sidecar and a duplicate.
C6_Witness ==
  /\ ThroughStage5
  /\ pc = "move_and_rename_files"
  /\ \E s \in DOMAIN sidecars.data : ~sidecars.data[s].live
  /\ \E h \in LiveHandles(media) : media.data[h].sidecar # 0 /\ media.data[h].dupes # {}

\* The live media of the state move_and_rename_files starts from that are
\* members of no Live Photo group.
OtherMedia == LiveHandles(media) \ LinkedHandles

\* The calls move_and_rename_files makes in the step.
NewCalls == (Len(calls) + 1)..Len(calls')

\* The step moves the file at path.
MovesFile(path) ==
  \E i \in NewCalls : calls'[i].op = "move_file" /\ calls'[i].file = path

\* The step moves the media h with its initial sidecar and its duplicates.
MovedWithSidecars(h) ==
  /\ MovesFile(media.data[h].metadata.source_file)
  /\ media.data[h].sidecar # 0 =>
       MovesFile(sidecars.data[media.data[h].sidecar].metadata.source_file)
  /\ \A d \in media.data[h].dupes : MovesFile(dupes.data[d].metadata.source_file)

\* The step leaves the file of media h where it is.
LeftInPlace(h) ==
  /\ ~MovesFile(media.data[h].metadata.source_file)
  /\ media.data[h].metadata.source_file \in DOMAIN source'

\* C7: move_and_rename_files moves a media file that is in no Live Photo
\* group, with its sidecars, if and only if force is true or its handle is
\* in the valid set; a file that is not eligible stays at its path; and
\* with force false and no validation enabled the stage moves nothing and
\* returns Ok.
C7_MovedIffEligible ==
  [][(pc = "move_and_rename_files" /\ status = "running") =>
       /\ \A h \in OtherMedia :
            /\ (force' \/ h \in valid_media) => MovedWithSidecars(h)
            /\ ~(force' \/ h \in valid_media) => LeftInPlace(h)
       /\ (~force' /\ validation = {}) =>
            /\ status' = "ok"
            /\ calls' = calls
            /\ source' = source
            /\ dst' = dst]_vars

\* The positions in `calls` of the calls to io::move_file.
MoveCalls == {i \in DOMAIN calls : calls[i].op = "move_file"}

\* C8 as stated: for each media stage 6 moves, its duplicate sidecars are
\* moved before its initial sidecar, and its initial sidecar before the
\* media file.
C8_DupesThenSidecarThenMedia ==
  \A i, j \in MoveCalls :
    calls[i].owner = calls[j].owner =>
      /\ (calls[i].kind = "SidecarDupe" /\ calls[j].kind = "SidecarInitial") => i < j
      /\ (calls[i].kind = "SidecarInitial" /\ calls[j].kind = "Media") => i < j

\* The step moves the file at path, as a file of kind `kind`, before its
\* call number j.
MovedEarlier(j, path, kind) ==
  \E i \in NewCalls : i < j /\ calls'[i].file = path /\ calls'[i].kind = kind

\* C8, amended: for each media stage 6 moves, all of its duplicate
\* sidecars are moved before the media file, and the media file is moved
\* before its initial sidecar (the source of the metadata of all three).
C8_DupesThenMediaThenSidecar ==
  [][(pc = "move_and_rename_files" /\ status = "running") =>
       \A j \in NewCalls :
         /\ calls'[j].kind = "Media" =>
              \A d \in media.data[calls'[j].owner].dupes :
                MovedEarlier(j, dupes.data[d].metadata.source_file, "SidecarDupe")
         /\ calls'[j].kind = "SidecarInitial" =>
              MovedEarlier(j, media.data[calls'[j].owner].metadata.source_file, "Media")
         /\ calls'[j].kind = "SidecarDupe" =>
              \A i \in NewCalls :
                (i < j /\ calls'[i].owner = calls'[j].owner) => calls'[i].kind = "SidecarDupe"]_vars

\* Stage 6 returned Ok after moving a media file, its initial sidecar and a
\* duplicate sidecar of it.
C8_Witness ==
  /\ pc = "done"
  /\ \E h \in DOMAIN media.data :
       \A kind \in {"Media", "SidecarInitial", "SidecarDupe"} :
         \E i \in MoveCalls : calls[i].owner = h /\ calls[i].kind = kind

\* The name of a moved file up to its first dot, and from it on.
Stem(p) == SubSeq(p, 1, FirstDot(p, 1) - 1)
Ending(p) == SubSeq(p, FirstDot(p, 1), Len(p))

\* By its name the moved dependent dep belongs to the moved media med:
\* <name of med>.xmp for an initial sidecar, and for a duplicate the name
\* of med with _<nn> before its extension, and .xmp.
NameBelongsTo(dep, med) ==
  IF dep.kind = "SidecarDupe"
  THEN \E a, b \in Range(Digits) :
         dep.to = Stem(med.to) \o <<"_", a, b>> \o Ending(med.to) \o <<".">> \o XMPX
  ELSE dep.to = med.to \o <<".">> \o XMPX

\* C9: every moved initial sidecar and duplicate sidecar has the timestamp
\* and the counter suffix of the media file it was linked to, whatever the
\* order of the groups and the dependents each has: by name it belongs to
\* its own media and to no other moved media.
C9_DependentsNamedAfterTheirMedia ==
  \A i, j \in MoveCalls :
    (calls[i].kind # "Media" /\ calls[j].kind = "Media") =>
      (NameBelongsTo(calls[i], calls[j]) <=> calls[i].owner = calls[j].owner)

\* The path of a moved file: dst is the existing absolute directory /d.
Destination(to) == <<"/", "d", "/">> \o to

\* \d{4}/\d{2}/\d{6}_\d{9} on the 24 characters of p from position i.
MatchesDate(p, i) ==
  /\ i + 23 <= Len(p)
  /\ \A k \in (i..(i + 3)) \cup ((i + 5)..(i + 6)) \cup ((i + 8)..(i + 13))
               \cup ((i + 15)..(i + 23)) : IsDigit(p[k])
  /\ p[i + 4] = "/"
  /\ p[i + 7] = "/"
  /\ p[i + 14] = "_"

\* \.[^/]+ on p from position k to its end.
MatchesExtension(p, k) ==
  /\ k < Len(p)
  /\ p[k] = "."
  /\ \A q \in (k + 1)..Len(p) : p[q] # "/"

\* _\d{2}\.[^/]+ on p from position k to its end.
MatchesDupeNumber(p, k) ==
  /\ k + 2 <= Len(p)
  /\ p[k] = "_"
  /\ IsDigit(p[k + 1])
  /\ IsDigit(p[k + 2])
  /\ MatchesExtension(p, k + 3)

\* _[b-z] on the two characters of p from position k.
MatchesCounter(p, k) ==
  /\ k + 1 <= Len(p)
  /\ p[k] = "_"
  /\ p[k + 1] \in Range(Letters)

\* p matches .*/\d{4}/\d{2}/\d{6}_\d{9}(_[b-z])?\.[^/]+
MatchesName(p) ==
  \E i \in 2..Len(p) :
    /\ p[i - 1] = "/"
    /\ MatchesDate(p, i)
    /\ \/ MatchesExtension(p, i + 24)
       \/ MatchesCounter(p, i + 24) /\ MatchesExtension(p, i + 26)

\* p matches .*/\d{4}/\d{2}/\d{6}_\d{9}(_[b-z])?_\d{2}\.[^/]+
MatchesDupeName(p) ==
  \E i \in 2..Len(p) :
    /\ p[i - 1] = "/"
    /\ MatchesDate(p, i)
    /\ \/ MatchesDupeNumber(p, i + 24)
       \/ MatchesCounter(p, i + 24) /\ MatchesDupeNumber(p, i + 26)

\* C10 as stated: the destination of every moved file (media, initial
\* sidecar and duplicate sidecar alike) matches
\* .*/\d{4}/\d{2}/\d{6}_\d{9}(_[b-z])?\.[^/]+
C10_EveryDestinationMatches ==
  \A i \in MoveCalls : MatchesName(Destination(calls[i].to))

\* C10, amended: the destination of every moved media file and initial
\* sidecar matches .*/\d{4}/\d{2}/\d{6}_\d{9}(_[b-z])?\.[^/]+, and the
\* destination of every moved duplicate sidecar matches
\* .*/\d{4}/\d{2}/\d{6}_\d{9}(_[b-z])?_\d{2}\.[^/]+ : its duplicate number
\* stands between the time (and counter) and the extension.
C10_DestinationNames ==
  \A i \in MoveCalls :
    IF calls[i].kind = "SidecarDupe"
    THEN MatchesDupeName(Destination(calls[i].to)) /\ ~MatchesName(Destination(calls[i].to))
    ELSE MatchesName(Destination(calls[i].to))

\* Stage 6 returned Ok after moving a duplicate sidecar, an initial sidecar
\* and a media file that was given a counter.
C10_Witness ==
  /\ pc = "done"
  /\ \E i \in MoveCalls : calls[i].kind = "SidecarDupe"
  /\ \E i \in MoveCalls : calls[i].kind = "SidecarInitial"
  /\ \E i \in MoveCalls : calls[i].kind = "Media" /\ Len(Stem(calls[i].to)) = 26

\* C11: a failure on one entity inside a stage loop, for a reason other than
\* a trash collision, a path escaping the root or a broken invariant, does
\* not abort the run: once the catalog is loaded, a stage returns Err only
\* from a stage-1 pass, where the only failure of remove_by_path on a file
\* on disk is a trash collision.
C11_PerEntityFailureDoesNotAbort ==
  ("new" \in ran /\ status = "err") => pc \in Stage1Passes

\* The metadata source of the live media h (its sidecar when it has one,
\* else the file itself) holds neither DateTimeOriginal nor CreateDate.
Undated(h) == RenameDate(SourceMeta(World, h)) = 0

\* C12: stage 6 treats a media file whose metadata source has no timestamp
\* as ineligible, whatever the force flag and the enabled validations: it
\* issues no move for the file, the file stays at its path, and the stage
\* goes on to return Ok rather than failing on it.  (Stated for the media
\* in no Live Photo group, which are named from their own metadata source.)
C12_UndatedMediaLeftInPlace ==
  [][(pc = "move_and_rename_files" /\ status = "running") =>
       \A h \in OtherMedia :
         Undated(h) => (LeftInPlace(h) /\ status' = "ok")]_vars

\* The three stage-1 passes invoked on the Organizer as it stands, in the
\* order of commands::run, with the iteration orders korder, k1, k2 and ord.
Stage1Again(korder, k1, k2, ord) ==
  RemoveLeftoverSidecars(
    RemoveLeftoverSidecars(
      remove_live_photo_duplicates_by_type(
        remove_live_photo_duplicates_by_type(
          RemoveLeftovers([World EXCEPT !.lpm = [k \in DOMAIN live_photo_map \ Leftovers |->
                                                   live_photo_map[k]]],
                          korder, 1, ord),
          "images", k1, 1, ord),
        "videos", k2, 1, ord),
      "sidecars", 1),
    "dupes", 1)

\* Stage 1 has just returned Ok.
AfterStage1 == pc = "create_missing_sidecars" /\ status = "running"

\* C14: stage 1 is idempotent.  Invoked again right after a first successful
\* invocation, the three passes return Ok, take no entry out of the media,
\* sidecar, duplicate and linker maps, and move no file to the trash,
\* whatever the iteration orders.
C14_Stage1Idempotent ==
  AfterStage1 =>
    \A korder \in Perms(Leftovers), k1 \in Perms(DOMAIN live_photo_map),
       k2 \in Perms(DOMAIN live_photo_map), ord \in Perms(LinkedHandles) :
      Stage1Again(korder, k1, k2, ord) = World

\* Stage 1 returned Ok after a first invocation that moved a media file, an
\* initial sidecar and a duplicate sidecar to the trash.
C14_Witness ==
  /\ AfterStage1
  /\ \A kind \in {"Media", "SidecarInitial", "SidecarDupe"} :
       \E i \in DOMAIN calls : calls[i].op = "remove_file" /\ calls[i].kind = kind

\* The slots of the sidecar map m that are tombstones.
TakenFrom(m) == DOMAIN m.data \ LiveHandles(m)

\* C15: without a trash directory (import mode) the passes of stage 1 move,
\* rename and delete no file: each pass leaves the files under the source
\* directory, and the trash, as they were, and calls io::remove_file for
\* none.
C15_ImportModeKeepsFiles ==
  [][(pc \in Stage1Passes /\ status = "running" /\ ~trash.some) =>
       /\ source' = source
       /\ trash' = trash
       /\ calls' = calls]_vars

\* Stage 1 returned Ok without a trash directory after taking a media, an
\* initial sidecar and a duplicate sidecar out of their maps, and the files
\* of all three are still under the source directory.
C15_Witness ==
  /\ AfterStage1
  /\ ~trash.some
  /\ TakenMedia # {}
  /\ TakenFrom(sidecars) # {}
  /\ TakenFrom(dupes) # {}
  /\ \A p \in DOMAIN media.path_to_handle \cup DOMAIN sidecars.path_to_handle
                \cup DOMAIN dupes.path_to_handle : p \in DOMAIN source

\* The live media h has no linked initial sidecar, and a file already lies
\* at <media path>.xmp.
XmpInTheWay(h) ==
  /\ media.data[h].sidecar = 0
  /\ XmpPath(media.data[h].metadata.source_file) \in DOMAIN source

\* C16: when stage 2 meets a media without linked initial sidecar whose
\* <media path>.xmp already exists on disk, it skips that media and goes on:
\* create_missing_sidecars does not return Err because of it, and the file
\* in the way is left as it is.
C16_ExistingXmpIsSkipped ==
  [][(pc = "create_missing_sidecars" /\ status = "running"
        /\ \E h \in LiveHandles(media) : XmpInTheWay(h)) =>
       /\ status' = "running"
       /\ \A h \in LiveHandles(media) :
            XmpInTheWay(h) =>
              source'[XmpPath(media.data[h].metadata.source_file)]
                = source[XmpPath(media.data[h].metadata.source_file)]]_vars

\* The positions in `calls` of the inserts and of the takes.
FmInserts == {i \in DOMAIN calls : calls[i].op = "insert"}

FmTakes == {i \in DOMAIN calls : calls[i].op = "take"}

\* C17: FileMap handles are never reused.  After any sequence of inserts and
\* takes, no two inserts were assigned the same handle (taken entries
\* included), every taken slot is empty, and every entry that was not taken
\* is still found under the handle its insert assigned.
C17_HandlesNeverReused ==
  /\ \A i, j \in FmInserts : i # j => calls[i].owner # calls[j].owner
  /\ \A i \in FmTakes : sidecars.data[calls[i].owner] = Tombstone
  /\ \A i \in FmInserts :
       /\ calls[i].owner \in DOMAIN sidecars.data
       /\ (\A j \in FmTakes : calls[j].owner # calls[i].owner) =>
            sidecars.data[calls[i].owner] = FmEntry(i)

\* An entry was inserted after an earlier entry had been taken, and an
\* entry inserted before that take is still there.
C17_Witness ==
  \E i, k \in FmInserts, j \in FmTakes :
    /\ calls[j].owner < calls[i].owner
    /\ j < i
    /\ k < j
    /\ Live(sidecars, calls[k].owner)

\* C18: after any sequence of inserts and takes the FileMap holds no two
\* live entries that were inserted under the same path: FileMap::insert
\* itself keeps a second entry for a path out while the first is live.
C18_OneLiveEntryPerPath ==
  \A i, j \in FmInserts :
    (i # j /\ calls[i].file = calls[j].file) =>
      ~(Live(sidecars, calls[i].owner) /\ Live(sidecars, calls[j].owner))

\* The linker entries and sides media handle h appears in.
LinkerPlaces(h) ==
  {ks \in (DOMAIN live_photo_map) \X {"images", "videos"} :
     h \in HandlesOf(live_photo_map[ks[1]][ks[2]])}

\* The side of a linker a file type belongs to.
SideOf(file_type) ==
  IF file_type \in {"JPEG", "HEIC"} THEN "images"
  ELSE IF file_type = "MOV" THEN "videos"
  ELSE None

\* Organizer::new has just returned Ok.
AfterLoading == pc = "remove_live_photo_leftovers" /\ status = "running"

\* C19: after loading, every Media with a content identifier appears in
\* exactly one linker entry, the one keyed by its content identifier, and on
\* one side of it: the image side for a JPEG or HEIC, the video side for a
\* MOV.  A Media without content identifier appears in no linker entry.
C19_LinkedOnceOnItsSide ==
  AfterLoading =>
    \A h \in LiveHandles(media) :
      LinkerPlaces(h) =
        IF media.data[h].metadata.content_identifier # None
        THEN {<<media.data[h].metadata.content_identifier,
                SideOf(media.data[h].metadata.file_type)>>}
        ELSE {}

\* Loading returned Ok with a HEIC, a JPEG and a MOV that share a content
\* identifier, and a media without one.
C19_Witness ==
  /\ AfterLoading
  /\ \E k \in DOMAIN live_photo_map :
       /\ Cardinality(live_photo_map[k].images) = 2
       /\ Cardinality(live_photo_map[k].videos) = 1
  /\ \E h \in LiveHandles(media) : media.data[h].metadata.content_identifier = None

\* The positions in `calls` of the writes stage 3 issues to a file.
Stage3Writes == {i \in DOMAIN calls : calls[i].op \in {"write_tags", "align_mwg"}}

\* C20: every write stage 3 issues to a file, the copyright, location and
\* time-zone write and the MWG alignment write alike, is followed at once by
\* a fresh read of that file into the Metadata of the entity written, before
\* the stage goes on to the next media.
C20_EveryWriteIsReadBack ==
  \A i \in Stage3Writes :
    /\ i + 1 \in DOMAIN calls
    /\ calls[i + 1].op = "read_metadata"
    /\ calls[i + 1].file = calls[i].file
    /\ calls[i + 1].owner = calls[i].owner

\* The media handles of the linker group k.
GroupHandles(k) ==
  HandlesOf(live_photo_map[k].images) \cup HandlesOf(live_photo_map[k].videos)

\* C21: the members of a Live Photo group that stage 6 moves all receive
\* the timestamp and the counter suffix of the group's primary image: the
\* names of the moved media files of one group are equal up to their
\* extension, whatever other files resolve to the same timestamp.
C21_GroupSharesTimestampAndCounter ==
  [][(pc = "move_and_rename_files" /\ status = "running") =>
       \A k \in DOMAIN live_photo_map :
         \A i, j \in NewCalls :
           (/\ calls'[i].op = "move_file" /\ calls'[i].kind = "Media"
            /\ calls'[j].op = "move_file" /\ calls'[j].kind = "Media"
            /\ calls'[i].owner \in GroupHandles(k)
            /\ calls'[j].owner \in GroupHandles(k)) =>
             Stem(calls'[i].to) = Stem(calls'[j].to)]_vars

\* A linker group has a side without member: get_image_best or
\* get_video_best on it unwraps None, which is no access to a FileMap.
EmptySide == \E k \in DOMAIN live_photo_map :
               live_photo_map[k].images = {} \/ live_photo_map[k].videos = {}

\* C22: in the stage order of commands::run no stage indexes a FileMap
\* through a handle whose slot an earlier stage has tombstoned: when a stage
\* panics at all, it is sync_live_photo_metadata unwrapping the best member
\* of an empty side, never the Index of a FileMap on a tombstone.
C22_NoTombstoneIndexed ==
  status = "panic" => (pc = "sync_live_photo_metadata" /\ EmptySide)

\* The positions among the calls of the step of the calls to io::move_file.
NewMoves == {i \in NewCalls : calls'[i].op = "move_file"}

\* C23: whenever stage 6 asks for a file to be moved with the tags of a
\* metadata source, the source is still at its original path: no earlier
\* move of the stage has moved it, so that within each moved group the
\* metadata source is the last file to move, and the stage fails for no
\* other reason than a metadata source without date.
C23_SourceMovedLast ==
  [][(pc = "move_and_rename_files" /\ status = "running") =>
       /\ \A j \in NewMoves :
            /\ calls'[j].from \in DOMAIN source
            /\ \A i \in NewMoves : i < j => calls'[i].file # calls'[j].from
       /\ status' = "err" => \E h \in LiveHandles(media) : Undated(h)]_vars

\* Stage 6 returned Ok after moving a Live Photo group of three files with
\* the sidecar of its image as metadata source: another member first, the
\* image next, the sidecar last.
C23_Witness ==
  /\ pc = "done"
  /\ \E i, j, k \in MoveCalls :
       /\ i < j /\ j < k
       /\ calls[i].from = calls[k].file
       /\ calls[j].from = calls[k].file
       /\ calls[k].from = calls[k].file
       /\ calls[k].kind = "SidecarInitial"
       /\ calls[i].owner # calls[j].owner
       /\ calls[j].owner = calls[k].owner

\* The file of the media h, which the step takes, has gone to the trash
\* when there is one.
Trashed(h) ==
  trash.some =>
    /\ media.data[h].metadata.source_file \in trash'.files
    /\ media.data[h].metadata.source_file \notin DOMAIN source'

\* After the step, the side `side` of group k holds one member, a maximum
\* of the members it had under the order of LivePhotoLinkMetadata; that
\* member is live in the media map and every other one has been taken.
OneBestKept(k, side) ==
  \E x \in live_photo_map[k][side] :
    /\ \A y \in live_photo_map[k][side] : LinkLeq(y, x)
    /\ live_photo_map'[k][side] = {x}
    /\ Live(media', x.media_handle)
    /\ \A y \in live_photo_map[k][side] \ {x} :
         ~Live(media', y.media_handle) /\ Trashed(y.media_handle)

\* After the step, the side `side` of group k and its media are as before.
SideUnchanged(k, side) ==
  /\ live_photo_map'[k][side] = live_photo_map[k][side]
  /\ \A y \in live_photo_map[k][side] :
       media'.data[y.media_handle] = media.data[y.media_handle]

\* C24: when remove_live_photo_duplicates returns Ok, every side of a group
\* that had more than one member holds exactly one, a maximum under (codec
\* rank, modify date), live in the media map, and every other member of the
\* side has been taken (and moved to the trash when there is one); a side
\* with at most one member is unchanged.
C24_OneBestMemberKept ==
  [][(pc = "remove_live_photo_duplicates" /\ status = "running" /\ status' = "running") =>
       /\ DOMAIN live_photo_map' = DOMAIN live_photo_map
       /\ \A k \in DOMAIN live_photo_map : \A side \in {"images", "videos"} :
            IF Cardinality(live_photo_map[k][side]) > 1
            THEN OneBestKept(k, side)
            ELSE SideUnchanged(k, side)]_vars

\* remove_live_photo_duplicates returned Ok with a trash directory on a
\* group that had two images and two videos.
C24_Witness ==
  /\ pc = "remove_sidecar_leftovers"
  /\ status = "running"
  /\ trash.some
  /\ \E k \in DOMAIN live_photo_map :
       /\ Cardinality(live_photo_map[k].images) = 1
       /\ Cardinality(live_photo_map[k].videos) = 1
       /\ Cardinality({i \in DOMAIN calls :
                         calls[i].op = "remove_file" /\ calls[i].kind = "Media"}) = 2

\* The codec rank as the claim states it: HEIC and HEVC together on top,
\* JPEG and AVC together below them, anything else last.
CodecClass(codec) ==
  IF codec \in {"HEIC", "HEVC"} THEN 2
  ELSE IF codec \in {"JPEG", "AVC"} THEN 1
  ELSE 0

\* The member x of a side wins against the member y of the same side.
Beats(x, y) ==
  \/ CodecClass(x.codec) > CodecClass(y.codec)
  \/ CodecClass(x.codec) = CodecClass(y.codec) /\ x.last_modified >= y.last_modified

\* C25: the best member of a linker side is chosen by codec rank first and
\* modify date second.  Whatever members the side holds, the one
\* get_image_best returns is of a codec class no member exceeds (HEIC and
\* HEVC beat JPEG and AVC whatever the dates; HEIC ties with HEVC, JPEG with
\* AVC), and no member of its class has a newer modify date.
C25_BestByRankThenDate ==
  \A h \in valid_media :
    \A x, y \in live_photo_map["X"].images :
      x.media_handle = h => Beats(x, y)

\* get_image_best returned an HEVC member although the side holds an older
\* HEIC member and a JPEG member newer than both.
C25_Witness ==
  \E h \in valid_media :
    \E x, y, z \in live_photo_map["X"].images :
      /\ x.media_handle = h
      /\ x.codec = "HEVC" /\ y.codec = "HEIC" /\ z.codec = "JPEG"
      /\ y.last_modified < x.last_modified
      /\ x.last_modified < z.last_modified

\* The handles held by the groups without image.
LeftoverVideos ==
  UNION {HandlesOf(live_photo_map[k].videos) :
           k \in {g \in DOMAIN live_photo_map : live_photo_map[g].images = {}}}

UnlinkedTaken(fm, fmNext) ==
  /\ DOMAIN fmNext.data = DOMAIN fm.data
  /\ \A i \in DOMAIN fm.data :
       IF fm.data[i].live /\ fm.data[i].media = 0 THEN ~fmNext.data[i].live
       ELSE fmNext.data[i] = fm.data[i]

MovesFileFrom(path, msrc) ==
  \E i \in NewMoves : calls'[i].file = path /\ calls'[i].from = msrc

\* The step moves the media h, its initial sidecar and its duplicates with
\* the tags of the file at msrc.
MovedWithSidecarsFrom(h, msrc) ==
  /\ MovesFileFrom(media.data[h].metadata.source_file, msrc)
  /\ media.data[h].sidecar # 0 =>
       MovesFileFrom(sidecars.data[media.data[h].sidecar].metadata.source_file, msrc)
  /\ \A d \in media.data[h].dupes : MovesFileFrom(dupes.data[d].metadata.source_file, msrc)

\* The step moves neither the media h nor one of its sidecars.
NothingMovedOf(h) ==
  /\ ~MovesFile(media.data[h].metadata.source_file)
  /\ media.data[h].sidecar # 0 =>
       ~MovesFile(sidecars.data[media.data[h].sidecar].metadata.source_file)
  /\ \A d \in media.data[h].dupes : ~MovesFile(dupes.data[d].metadata.source_file)

\* Stage 6 treats group k as its best image b tells: all of it moves with
\* the metadata source of b, or nothing of it moves.
GroupFollowsBest(k, b, frc) ==
  IF frc \/ b \in valid_media
  THEN \A h \in GroupHandles(k) : MovedWithSidecarsFrom(h, pick_source(World, b))
  ELSE \A h \in GroupHandles(k) : NothingMovedOf(h)

\* C28: for a Live Photo group with at least one image, stage 6 decides
\* eligibility from the best image alone: if force is set or the handle of
\* the best image is in the valid set, every member of the group, with its
\* sidecar and its duplicate sidecars, is moved with the metadata source of
\* the best image; otherwise no member of the group is moved, even one
\* whose own handle is in the valid set.
C28_GroupEligibleByBestImage ==
  [][(pc = "move_and_rename_files" /\ status = "running") =>
       \A k \in DOMAIN live_photo_map :
         live_photo_map[k].images # {} =>
           \E b \in HandlesOf(Best(live_photo_map[k].images)) :
             GroupFollowsBest(k, b, force')]_vars

\* The image handles and the video handles of every linker group.
Membership(lpm) ==
  [k \in DOMAIN lpm |-> <<HandlesOf(lpm[k].images), HandlesOf(lpm[k].videos)>>]

\* C29: stage 4 does not change the membership of a LivePhotoLinker group:
\* when sync_live_photo_metadata returns, Ok or Err, every group holds the
\* image handles and the video handles it held before the call, so that
\* stage 6 still sees every group formed at load and kept by stage 1.
C29_Stage4KeepsGroups ==
  [][(pc = "sync_live_photo_metadata" /\ status = "running" /\ status' # "panic") =>
       Membership(live_photo_map') = Membership(live_photo_map)]_vars

\* sync_live_photo_metadata has returned Ok in a catalog that holds a pair
\* and a group that is not a pair, an image without video.
C29_Witness ==
  /\ pc = "sync_dupe_metadata"
  /\ status = "running"
  /\ \E k \in DOMAIN live_photo_map : is_pair(live_photo_map[k])
  /\ \E k \in DOMAIN live_photo_map :
       live_photo_map[k].images # {} /\ live_photo_map[k].videos = {}

\* The positions among the calls of the step of the writes to a file.
NewWrites == {i \in NewCalls : calls'[i].op \in {"write_tags", "align_mwg"}}

\* The step writes the file at path.
WritesFile(path) == \E i \in NewWrites : calls'[i].file = path

\* The initial sidecars some live media is linked to.
LinkedSidecars == {media.data[h].sidecar : h \in LiveHandles(media)} \ {0}

\* The condition of the copyright update holds of the metadata m.
NeedsCopyright(m) == m.creator # None /\ m.copyright = None

\* C30: with an update enabled, stage 3 evaluates the update conditions of
\* each media on the metadata of its linked initial sidecar when one is
\* linked and else on its own, and writes only that same file: every write
\* of the stage goes to the file the conditions of its media were evaluated
\* on and no other file changes, a media file is not written when a sidecar
\* is linked, and duplicate sidecars and unlinked sidecars are never
\* written.
C30_Stage3WritesItsSourceOnly ==
  [][(pc = "apply_metadata_updates" /\ status = "running") =>
       /\ \A i \in NewWrites :
            /\ calls'[i].owner \in LiveHandles(media)
            /\ calls'[i].file = SourceMeta(World, calls'[i].owner).source_file
            /\ calls'[i].op = "write_tags" =>
                 NeedsCopyright(SourceMeta(World, calls'[i].owner))
       /\ (NewWrites # {} /\ status' = "running") =>
            \A h \in LiveHandles(media) :
              NeedsCopyright(SourceMeta(World, h)) =>
                \E i \in NewWrites : calls'[i].op = "write_tags" /\ calls'[i].owner = h
       /\ DOMAIN source' = DOMAIN source
       /\ \A p \in DOMAIN source : source'[p] # source[p] => WritesFile(p)
       /\ \A h \in LiveHandles(media) :
            media.data[h].sidecar # 0 => ~WritesFile(media.data[h].metadata.source_file)
       /\ \A d \in LiveHandles(dupes) : ~WritesFile(dupes.data[d].metadata.source_file)
       /\ \A s \in LiveHandles(sidecars) \ LinkedSidecars :
            ~WritesFile(sidecars.data[s].metadata.source_file)]_vars

\* apply_metadata_updates has returned Ok after writing the sidecar of one
\* media and the file of another, in a catalog that holds a media with
\* sidecar and duplicate sidecar and a sidecar no media is linked to.
C30_Witness ==
  /\ pc = "sync_live_photo_metadata"
  /\ status = "running"
  /\ \E i \in DOMAIN calls : calls[i].op = "write_tags" /\ calls[i].kind = "SidecarInitial"
  /\ \E i \in DOMAIN calls : calls[i].op = "align_mwg"
  /\ \E h \in LiveHandles(media) : media.data[h].sidecar # 0 /\ media.data[h].dupes # {}
  /\ \E s \in LiveHandles(sidecars) :
       s \notin {media.data[h].sidecar : h \in LiveHandles(media)}

\* The live initial sidecars whose media handle is set.
BackLinked == {s \in LiveHandles(sidecars) : sidecars.data[s].media # 0}

\* The step calls copy_metadata from the file at src to the file at to.
CopiesTo(src, to) ==
  \E i \in NewCalls : calls'[i].op = "copy_metadata" /\ calls'[i].from = src /\ calls'[i].file = to

\* The duplicate d was given the metadata of the initial sidecar s: the tags
\* of s were written to its file and the entry holds the file as read back.
DupeSynced(s, d) ==
  /\ CopiesTo(sidecars.data[s].metadata.source_file, dupes.data[d].metadata.source_file)
  /\ Live(dupes', d)
  /\ dupes'.data[d].metadata = source'[dupes.data[d].metadata.source_file]
  /\ \A t \in TagNames :
       IsSet(sidecars.data[s].metadata, t) =>
         dupes'.data[d].metadata[t] = sidecars.data[s].metadata[t]

\* The duplicates some back-linked initial sidecar reaches through its
\* media.
ReachedDupes ==
  UNION {media.data[sidecars.data[s].media].dupes :
           s \in {x \in BackLinked : Live(media, sidecars.data[x].media)}}

\* C32: sync_dupe_metadata copies, for every initial sidecar linked to a
\* media, the metadata of that sidecar to every duplicate sidecar linked to
\* the same media and replaces the in-memory metadata of each such
\* duplicate with the refreshed read; it writes no initial sidecar and no
\* media file, and the duplicates of a media without initial sidecar are
\* left unchanged.
C32_DupesSyncedFromInitial ==
  [][(pc = "sync_dupe_metadata" /\ status = "running") =>
       /\ \A s \in BackLinked :
            /\ Live(media, sidecars.data[s].media)
            /\ \A d \in media.data[sidecars.data[s].media].dupes : DupeSynced(s, d)
       /\ sidecars' = sidecars
       /\ media' = media
       /\ DOMAIN source' = DOMAIN source
       /\ \A p \in DOMAIN source :
            source'[p] # source[p] =>
              \E d \in ReachedDupes : Live(dupes, d) /\ dupes.data[d].metadata.source_file = p
       /\ \A d \in LiveHandles(dupes) \ ReachedDupes : dupes'.data[d] = dupes.data[d]]_vars

\* The entry d of the duplicate map carries the metadata of the initial
\* sidecar s: every tag s holds, d holds with the same value, in memory and
\* in its file.
CarriesMetadataOf(d, s) ==
  \A t \in TagNames :
    IsSet(sidecars.data[s].metadata, t) =>
      /\ dupes.data[d].metadata[t] = sidecars.data[s].metadata[t]
      /\ source[dupes.data[d].metadata.source_file][t] = sidecars.data[s].metadata[t]

\* The image hi and the video hv are the two members of a pair and both
\* have a live initial sidecar.
PairWithSidecars(hi, hv) ==
  /\ \E k \in DOMAIN live_photo_map :
       /\ is_pair(live_photo_map[k])
       /\ HandlesOf(live_photo_map[k].images) = {hi}
       /\ HandlesOf(live_photo_map[k].videos) = {hv}
  /\ media.data[hi].sidecar # 0 /\ Live(sidecars, media.data[hi].sidecar)
  /\ media.data[hv].sidecar # 0 /\ Live(sidecars, media.data[hv].sidecar)

\* C33: in the order of commands::run, Live Photo synchronisation before
\* duplicate synchronisation, after stage 4 every duplicate sidecar of the
\* video of a paired Live Photo whose image and video both have sidecars
\* carries the metadata of the initial sidecar of the Live Photo image.
C33_VideoDupesCarryImageMetadata ==
  (pc = "validate" /\ status = "running") =>
    \A hi, hv \in LiveHandles(media) :
      PairWithSidecars(hi, hv) =>
        \A d \in media.data[hv].dupes :
          Live(dupes, d) /\ CarriesMetadataOf(d, media.data[hi].sidecar)

\* Stage 4 has returned for a pair whose image and video have sidecars and
\* whose video has a duplicate sidecar, the sidecar of the image holding
\* tags.
C33_Witness ==
  /\ pc = "validate"
  /\ status = "running"
  /\ \E hi, hv \in LiveHandles(media) :
       /\ PairWithSidecars(hi, hv)
       /\ media.data[hv].dupes # {}
       /\ IsSet(sidecars.data[media.data[hi].sidecar].metadata, "date_time_original")

\* The check of the validation category c on the metadata m.
PassesCheck(c, m) ==
  CASE c = "attribution" -> validate_attribution(m)
    [] c = "camera" -> validate_camera(m)
    [] c = "date_time" -> validate_date_time(m)
    [] c = "location" -> validate_location(m)

\* The metadata validate judges the live media h by: that of the linked
\* initial sidecar when the media has one, else its own.
JudgedBy(h) ==
  IF media.data[h].sidecar # 0
  THEN sidecars.data[media.data[h].sidecar].metadata
  ELSE media.data[h].metadata

\* C34: after validate, the valid set contains exactly the handles of the
\* live media that pass every enabled check, each check being evaluated on
\* the metadata of the linked initial sidecar when the media has one and
\* else on the media's own; with no category enabled validate adds nothing
\* to the valid set.
C34_ValidSetIsExact ==
  [][(pc = "validate" /\ status = "running") =>
       /\ status' = "running"
       /\ valid_media' =
            IF validation' = {} THEN valid_media
            ELSE {h \in LiveHandles(media) :
                    \A c \in validation' : PassesCheck(c, JudgedBy(h))}]_vars

\* validate has returned with one category enabled and another not, for a
\* media with sidecar that is valid though its own metadata would not pass,
\* or is not valid though its own metadata would pass.
C34_Witness ==
  /\ pc = "move_and_rename_files"
  /\ status = "running"
  /\ validation # {}
  /\ validation # ValidationCategories
  /\ \E h \in LiveHandles(media) :
       /\ media.data[h].sidecar # 0
       /\ (h \in valid_media) # (\A c \in validation : PassesCheck(c, media.data[h].metadata))
  /\ \E h \in LiveHandles(media) : h \notin valid_media

\* The record m is classified as media, and its file name has no extension
\* or the extension xmp, or its FileType is not known.
RejectedAsMedia(m) ==
  /\ m.file_type # "XMP"
  /\ \/ Extension(m.source_file) = <<>>
     \/ [i \in DOMAIN Extension(m.source_file) |-> ToLower(Extension(m.source_file)[i])] = XMPX
     \/ m.file_type = "-"

\* C35: loading rejects with an error, producing no Organizer, any record
\* classified as media whose file name has no extension or the XMP
\* extension, or whose file_type is unknown: Organizer::new on a tree that
\* holds such a record returns Err.
C35_OddMediaRejected ==
  [][(pc = "new" /\ status = "running"
        /\ \E p \in DOMAIN source : RejectedAsMedia(source[p])) =>
       status' = "err"]_vars

\* The path p without its last n characters.
DropLast(p, n) == SubSeq(p, 1, Len(p) - n)

\* The path of an initial sidecar without its trailing .xmp.
StripXmp(p) == DropLast(p, 4)

\* The path of a duplicate sidecar without its trailing .xmp and without
\* the segment _<nn> before the extension of the media.
StripXmpAndNumber(p) ==
  DropLast(DropLast(p, 4), Len(Extension(DropLast(p, 4))) + 4)
    \o <<".">> \o Extension(DropLast(p, 4))

\* The sidecar s of the map fm is linked as the claim states, to the media
\* at path p when there is one.
LinkedWhenMediaAt(fm, s, p) ==
  /\ fm.data[s].media = Find(media, p)
  /\ Find(media, p) # 0 =>
       /\ Live(media, Find(media, p))
       /\ media.data[Find(media, p)].metadata.source_file = p

\* C36: at load a sidecar is linked to a media exactly when a Media entry
\* exists at the path obtained from the path of the sidecar by stripping
\* the trailing .xmp and, for a duplicate sidecar, the segment _<nn>; when
\* linked, the back-link of the sidecar and the sidecar handle (or the set
\* of duplicates) of the media are both set, and otherwise the sidecar
\* stays unlinked and no media is changed.
C36_LinkedExactlyWhenMediaExists ==
  (pc = "remove_live_photo_leftovers" /\ status = "running") =>
    /\ \A s \in DOMAIN sidecars.data :
         LinkedWhenMediaAt(sidecars, s, StripXmp(sidecars.data[s].metadata.source_file))
    /\ \A d \in DOMAIN dupes.data :
         LinkedWhenMediaAt(dupes, d, StripXmpAndNumber(dupes.data[d].metadata.source_file))
    /\ \A h \in DOMAIN media.data :
         /\ media.data[h].sidecar =
              Find(sidecars, media.data[h].metadata.source_file \o <<".">> \o XMPX)
         /\ media.data[h].dupes = {d \in DOMAIN dupes.data : dupes.data[d].media = h}
         /\ media.data[h].sidecar # 0 => sidecars.data[media.data[h].sidecar].media = h

\* Organizer::new has returned with a media linked to its initial sidecar
\* and to a duplicate sidecar, beside a sidecar whose media is not in the
\* tree.
C36_Witness ==
  /\ pc = "remove_live_photo_leftovers"
  /\ status = "running"
  /\ \E h \in DOMAIN media.data : media.data[h].sidecar # 0 /\ media.data[h].dupes # {}
  /\ \E s \in DOMAIN sidecars.data : sidecars.data[s].media = 0

\* The name of the XMP file written beside the media h: <media file name>.xmp.
XmpBeside(h) == media.data[h].metadata.source_file \o <<".">> \o XMPX

\* C37: every XMP file named <media file name>.xmp whose media is present
\* is linked at load as the initial sidecar of that media, whatever
\* characters the stem of the media ends with.
C37_XmpBesideMediaIsItsSidecar ==
  (pc = "remove_live_photo_leftovers" /\ status = "running") =>
    \A h \in DOMAIN media.data :
      XmpBeside(h) \in DOMAIN source =>
        /\ media.data[h].sidecar # 0
        /\ sidecars.data[media.data[h].sidecar].metadata.source_file = XmpBeside(h)
        /\ sidecars.data[media.data[h].sidecar].media = h

\* The files removed by the stage that leaves the Organizer as w.
RemovedBy(w) ==
  {w.calls[i].file : i \in {j \in (Len(calls) + 1)..Len(w.calls) : w.calls[j].op = "remove_file"}}

\* What a method of stage 1 leaves behind, apart from the order of its calls.
Outcome(w) ==
  [removed |-> RemovedBy(w), ok |-> w.ok, panic |-> w.panic, media |-> w.media,
   lpm |-> w.lpm, source |-> w.source, trash |-> w.trash]

\* remove_live_photo_leftovers under the orders korder and ord.
LeftoversUnder(korder, ord) ==
  RemoveLeftovers([World EXCEPT !.lpm = [k \in DOMAIN live_photo_map \ Leftovers |->
                                           live_photo_map[k]]],
                  korder, 1, ord)

\* remove_live_photo_duplicates under the orders korder1, korder2 and ord.
DuplicatesUnder(korder1, korder2, ord) ==
  remove_live_photo_duplicates_by_type(
    remove_live_photo_duplicates_by_type(World, "images", korder1, 1, ord),
    "videos", korder2, 1, ord)

\* The results of the method of stage 1 called next, one for every order of
\* iteration over the linker map and every order of the heaps.
Stage1Results ==
  IF pc = "remove_live_photo_leftovers"
  THEN {LeftoversUnder(korder, ord) :
          korder \in Perms(Leftovers), ord \in Perms(LinkedHandles)}
  ELSE IF pc = "remove_live_photo_duplicates"
  THEN {DuplicatesUnder(korder1, korder2, ord) :
          korder1 \in Perms(DOMAIN live_photo_map),
          korder2 \in Perms(DOMAIN live_photo_map), ord \in Perms(LinkedHandles)}
  ELSE {}

\* No two members of the same side of a group have both equal codec rank
\* and equal modify date.
NoTies ==
  \A k \in DOMAIN live_photo_map :
    \A x, y \in live_photo_map[k].images \cup live_photo_map[k].videos :
      (/\ x # y
       /\ (x \in live_photo_map[k].images) = (y \in live_photo_map[k].images)
       /\ rank(x.codec) = rank(y.codec)) => x.last_modified # y.last_modified

\* C38: the set of files that stage 1 removes is the same for every
\* iteration order over the linker map and every insertion order into the
\* linker heaps, provided no two members of the same side of a group have
\* both equal codec rank and equal modify date.
C38_RemovedSetSameForEveryOrder ==
  (status = "running" /\ NoTies) =>
    \A w1, w2 \in Stage1Results : RemovedBy(w1) = RemovedBy(w2)

\* C38 as the code has it: whether a method of stage 1 fails is the same
\* for every order, and when it returns Ok it has removed the same set of
\* files and left the same Organizer for every order, provided no two
\* members of the same side of a group have both equal codec rank and
\* equal modify date.
C38_RemovedSetSameWhenStageReturns ==
  (status = "running" /\ NoTies) =>
    \A w1, w2 \in Stage1Results :
      /\ w1.ok = w2.ok
      /\ w1.panic = w2.panic
      /\ (w1.ok /\ ~w1.panic) => Outcome(w1) = Outcome(w2)

\* remove_live_photo_duplicates is about to run on a group of three images
\* no two of which tie, and returns Ok having removed two files.
C38_Witness ==
  /\ pc = "remove_live_photo_duplicates"
  /\ status = "running"
  /\ NoTies
  /\ trash.some
  /\ \E k \in DOMAIN live_photo_map : Cardinality(live_photo_map[k].images) = 3
  /\ \E w \in Stage1Results : w.ok /\ ~w.panic /\ Cardinality(RemovedBy(w)) >= 2

\* The regular files on a disk.
FilesOn(disk) == {p \in DOMAIN disk : disk[p] = "file"}

\* Path p lies under directory d.
Under(p, d) == Len(p) > Len(d) /\ \A n \in 1..Len(d) : p[n] = d[n]

\* The path p as written without its `.` components.
Plain(p) == SelectSeq(p, LAMBDA c : c # ".")

\* Where in the trash the file goes: the path it has relative to root,
\* below the trash directory.
TrashPath(root, file) ==
  IoTrash \o SubSeq(Plain(file), Len(root) + 1, Len(Plain(file)))

\* remove_file(root, IoTrash, file) must fail on this disk: the file is
\* already under the trash, is not under root, or something exists at its
\* trash path.
MustFail(disk, root, file) ==
  \/ Under(Plain(file), IoTrash)
  \/ ~Under(Plain(file), root)
  \/ TrashPath(root, file) \in DOMAIN disk

\* Nothing stands in the way of the move: the file exists and no regular
\* file has the name of a directory of its trash path.
CanMove(disk, root, file) ==
  /\ Plain(file) \in FilesOn(disk)
  /\ ~MustFail(disk, root, file)
  /\ Ancestors(TrashPath(root, file)) \cap FilesOn(disk) = {}

\* The call c took the disk from `before` to `after` as C40 states.
MovedOrFailed(c, before, after) ==
  /\ c.result = "ok" =>
       /\ Plain(c.file) \in FilesOn(before)
       /\ FilesOn(after) = (FilesOn(before) \ {Plain(c.file)}) \cup {TrashPath(c.dir_root, c.file)}
       /\ TrashPath(c.dir_root, c.file) \notin DOMAIN before
  /\ MustFail(before, c.dir_root, c.file) => c.result = "err" /\ after = before
  /\ CanMove(before, c.dir_root, c.file) => c.result = "ok"

\* C40: remove_file moves the file into trash at the same path relative to
\* root that it had under root; it fails, leaving the file where it was and
\* the trash unchanged, if a file already exists at that trash path, if the
\* file is already under trash, or if the file is not under root.
C40_RemoveFileMovesOrFails ==
  [][pc = "io" => MovedOrFailed(calls'[1], source, source')]_vars

\* remove_file has moved r/d/a to r/t/d/a beside another file of the trash.
C40_Witness ==
  /\ pc = "io"
  /\ calls # <<>>
  /\ calls[1].result = "ok"
  /\ calls[1].file = <<"r", "d", "a">>
  /\ calls[1].dir_root = IoCatalog
  /\ {<<"r", "t", "d", "a">>, <<"r", "t", "a">>} \subseteq FilesOn(source)
  /\ <<"r", "d", "a">> \notin DOMAIN source

\* The point in time a DateTimeOriginal denotes, in hours UTC: the local
\* date-time less its offset.
Instant(m) == m.date_time - (CHOOSE o \in m.offset : TRUE)

\* The DateTimeOriginal `after` denotes what `before` denoted: the same
\* instant when `before` had an offset, the same local date-time when it
\* had none.
SameInstant(before, after) ==
  /\ after.offset # {}
  /\ IF before.offset = {}
     THEN after.date_time = before.date_time
     ELSE Instant(after) = Instant(before)

\* C31: the time-zone-from-GPS update of stage 3 preserves the stored
\* instant: the DateTimeOriginal it writes, taken together with the derived
\* offset, denotes the same point in time as the DateTimeOriginal (with its
\* offset, if any) that was read before the update.
C31_TimeZoneUpdateKeepsInstant ==
  [][(pc = "time_zone" /\ Len(calls') > Len(calls)) =>
       SameInstant(source[TzFile], source'[TzFile])]_vars

\* C39: the offset derivation of the time-zone-from-GPS update yields
\* exactly one offset for every naive local date-time and every zone,
\* including local times that are skipped or repeated at a daylight-saving
\* transition of that zone; it never aborts the run.
C39_OffsetDerivationNeverAborts ==
  pc = "time_zone" =>
    /\ status # "panic"
    /\ (status = "ok" /\ source[TzFile].zone # None) => Cardinality(source[TzFile].offset) = 1

====
